---- MODULE Spec2Model ----
(***************************************************************************)
(* Model of the summary validation-and-repair engine of                    *)
(* src/src/summarization/llm_summary.py (integer-id mode) and              *)
(* src/src/summarization/llm_summary_merged.py (mixed-id mode).            *)
(*                                                                         *)
(* Two specifications share the variables:                                 *)
(*   SpecSan  applies _sanitize_result_dict to every raw result and id     *)
(*            list of a bounded universe, once and then a second time;     *)
(*   Spec     runs summarize_query (both modes) against a generator whose  *)
(*            outcome is chosen anew on every attempt.                     *)
(***************************************************************************)
EXTENDS Integers, Sequences, FiniteSets, TLC

(* ------------------------------ bounds --------------------------------- *)

\* document ids are 1..MaxDocId
MaxDocId == 3
\* longest evidence list of a raw perspective
MaxEvidence == 2
\* perspectives in a whole raw result handed to the sanitizer (SpecSan)
MaxPersp == 2
\* claims in a raw result handed to the sanitizer (SpecSan)
MaxClaims == 2

\* documents in the largest corpus handed to summarize_query (Spec)
MaxCorpus == 4
\* characters in the longest exception text
MaxErrLen == 150
\* claims in a list built freely from the generator's claims (Spec)
MaxGenClaims == 2
\* evidence ids in a whole summary handed to _normalize_evidence_ids
\* (SpecNorm)
MaxNormIds == 3
\* claims in a candidate handed to the schema (SpecSchema)
MaxSchemaClaims == 3
\* concurrent callers of _get_outlines_model (SpecLoad)
NumCallers == 2
\* calls of summarize_query one process makes, one after the other (SpecSeq)
MaxCalls == 3

(* ------------------------- program constants --------------------------- *)

\* llm_summary.py line 206: max_retries = 3
IntMaxRetries == 3
\* llm_summary_merged.py line 164: max_retries = 10
MixedMaxRetries == 10
\* llm_summary_merged.py line 166: json_error_threshold = 5
json_error_threshold == 5
\* both modules: merged_corpus[:min(3, len(merged_corpus))]
FallbackDocs == 3
\* llm_summary.py lines 264 and 273: str(e)[:100]
TruncLen == 100
\* llm_summary.py line 227: len("Sanitization removed all perspectives")
SanitizationMsgLen == 37

DocIds == 1..MaxDocId
\* Python's None as an id: doc.get('id') of a document without an id, or a
\* JSON null inside evidence_docs
NoneId == 0
\* a perspective/claim text: a non-blank one and a whitespace-only one
PerspTexts == {"t", " "}
ClaimTexts == {"c", " "}
\* the claim texts of the raw results handed to the sanitizer in SpecSan,
\* which passes a claim's text through untouched
SanClaimTexts == {"c"}

(* ------------------------------ helpers -------------------------------- *)

Range(s) == {s[i] : i \in 1..Len(s)}

SeqsUpTo(S, n) == UNION {[1..k -> S] : k \in 0..n}

RECURSIVE Concat(_)
Concat(ss) == IF ss = <<>> THEN <<>> ELSE Head(ss) \o Concat(Tail(ss))

\* str.strip() on a text of the model: blank texts strip to the empty string
IsBlank(t) == t \in {"", " "}

\* all perspectives of a list of claims, in traversal order
Persps(summaries) == Concat([i \in 1..Len(summaries) |-> summaries[i].perspectives])
\* every evidence id cited in a list of claims
Cited(summaries) ==
    LET ps == Persps(summaries)
    IN UNION {Range(ps[i].evidence_docs) : i \in 1..Len(ps)}

MkPersp(t, ev) == [text |-> t, evidence_docs |-> ev]
MkClaim(c, ps) == [claim |-> c, perspectives |-> ps]

(* A parsed JSON object as summarize_query sees it: whether it has the key *)
(* "summaries" (absent, JSON null, or a list), the list, and whether it    *)
(* has any other key.                                                      *)
MkDict(k, s, o) == [summaries_key |-> k, summaries |-> s, other_keys |-> o]
EmptyDict == MkDict("absent", <<>>, FALSE)
SummariesDict(s) == MkDict("list", s, FALSE)
\* Python's None where a dict may stand (last_json before any attempt parsed)
NoJson == MkDict("none", <<>>, FALSE)
\* bool(d) of a dict or of None
Truthy(d) == d.summaries_key \in {"null", "list"} \/ d.other_keys

(* --------------------- _sanitize_result_dict --------------------------- *)

\* line 32: available_set = {d for d in available_doc_ids if d is not None}
AvailableSet(available_doc_ids) == {d \in Range(available_doc_ids) : d # NoneId}

\* UniqueDocs with the seen_docs test forgotten
UniqueDocsIgnoringSeen(p_docs, available_set, seen_docs) ==
    SelectSeq(p_docs, LAMBDA d : d \in available_set)

\* UniqueDocs with the corpus test forgotten
UniqueDocsIgnoringCorpus(p_docs, available_set, seen_docs) ==
    SelectSeq(p_docs, LAMBDA d : d \notin seen_docs)

RemoveFirst(s, d) ==
    LET i == CHOOSE k \in 1..Len(s) : s[k] = d /\ \A m \in 1..(k-1) : s[m] # d
    IN SubSeq(s, 1, i-1) \o SubSeq(s, i+1, Len(s))

RECURSIVE RemoveWhileIterating(_, _, _, _)
RemoveWhileIterating(p_docs, i, available_set, seen_docs) ==
    IF i > Len(p_docs) THEN p_docs
    ELSE IF p_docs[i] \in available_set /\ p_docs[i] \notin seen_docs
         THEN RemoveWhileIterating(p_docs, i+1, available_set, seen_docs)
         ELSE RemoveWhileIterating(RemoveFirst(p_docs, p_docs[i]), i+1,
                                   available_set, seen_docs)

\* UniqueDocs written as "for d in p_docs: if bad(d): p_docs.remove(d)", which
\* skips the element after each removal
UniqueDocsRemovingInPlace(p_docs, available_set, seen_docs) ==
    RemoveWhileIterating(p_docs, 1, available_set, seen_docs)

\* line 46: [d for d in p_docs if d in available_set and d not in seen_docs]
\* (seen_docs is only updated after the whole list has been filtered)
UniqueDocs(p_docs, available_set, seen_docs) ==
    SelectSeq(p_docs, LAMBDA d : d \in available_set /\ d \notin seen_docs)

\* SanitizePerspectives with "break" for the "continue" of line 50: the first
\* perspective that loses all its evidence ends the claim's loop
RECURSIVE SanitizePerspectivesStoppingAtDrop(_, _, _)
SanitizePerspectivesStoppingAtDrop(perspectives, available_set, seen_docs) ==
    IF perspectives = <<>> THEN [new |-> <<>>, seen |-> seen_docs]
    ELSE LET p == Head(perspectives)
             unique_docs == UniqueDocs(p.evidence_docs, available_set, seen_docs)
         IN IF unique_docs = <<>>
            THEN [new |-> <<>>, seen |-> seen_docs]
            ELSE LET rest == SanitizePerspectivesStoppingAtDrop(Tail(perspectives),
                                 available_set, seen_docs \cup Range(unique_docs))
                 IN [new |-> <<MkPersp(p.text, unique_docs)>> \o rest.new,
                     seen |-> rest.seen]

\* lines 42-54: the inner loop over one claim's perspectives; returns the new
\* perspectives and the grown seen_docs
RECURSIVE SanitizePerspectives(_, _, _)
SanitizePerspectives(perspectives, available_set, seen_docs) ==
    IF perspectives = <<>> THEN [new |-> <<>>, seen |-> seen_docs]
    ELSE LET p == Head(perspectives)
             unique_docs == UniqueDocs(p.evidence_docs, available_set, seen_docs)
         IN IF unique_docs = <<>>
            THEN SanitizePerspectives(Tail(perspectives), available_set, seen_docs)
            ELSE LET rest == SanitizePerspectives(Tail(perspectives), available_set,
                                                  seen_docs \cup Range(unique_docs))
                 IN [new |-> <<MkPersp(p.text, unique_docs)>> \o rest.new,
                     seen |-> rest.seen]

\* SanitizeClaims with the "if new_perspectives" of line 56 forgotten
RECURSIVE SanitizeClaimsKeepingEmpty(_, _, _)
SanitizeClaimsKeepingEmpty(summaries, available_set, seen_docs) ==
    IF summaries = <<>> THEN <<>>
    ELSE LET c == Head(summaries)
             r == SanitizePerspectives(c.perspectives, available_set, seen_docs)
         IN <<MkClaim(c.claim, r.new)>>
                \o SanitizeClaimsKeepingEmpty(Tail(summaries), available_set, r.seen)

\* lines 37-58: the outer loop over the claims
RECURSIVE SanitizeClaims(_, _, _)
SanitizeClaims(summaries, available_set, seen_docs) ==
    IF summaries = <<>> THEN <<>>
    ELSE LET c == Head(summaries)
             r == SanitizePerspectives(c.perspectives, available_set, seen_docs)
             rest == SanitizeClaims(Tail(summaries), available_set, r.seen)
         IN IF r.new # <<>> THEN <<MkClaim(c.claim, r.new)>> \o rest ELSE rest

\* sanitize_result_dict answering {} as soon as anything was removed
sanitize_result_dict_all_or_nothing(result_dict, available_doc_ids) ==
    LET summaries == IF result_dict.summaries_key = "list"
                     THEN result_dict.summaries ELSE <<>>
        sanitized_summaries == SanitizeClaims(summaries,
                                   AvailableSet(available_doc_ids), {})
    IN IF sanitized_summaries # <<>> /\ sanitized_summaries = summaries
       THEN SummariesDict(sanitized_summaries)
       ELSE EmptyDict

\* lines 30-60
sanitize_result_dict(result_dict, available_doc_ids) ==
    LET summaries == IF result_dict.summaries_key = "list"
                     THEN result_dict.summaries ELSE <<>>
        sanitized_summaries == SanitizeClaims(summaries,
                                   AvailableSet(available_doc_ids), {})
    IN IF sanitized_summaries # <<>> THEN SummariesDict(sanitized_summaries)
       ELSE EmptyDict


(* ------------- MultiPerspectiveSummary (integer-id mode) --------------- *)

\* every evidence id of a list of claims, in traversal order, repeats kept
AllEvidence(summaries) ==
    LET ps == Persps(summaries)
    IN Concat([i \in 1..Len(ps) |-> ps[i].evidence_docs])

\* lines 67-73 and 87-93: the text validators
TextOK(t) == ~IsBlank(t)

\* lines 98-109: validate_unique_docs_globally, which walks every evidence id
\* and rejects the second sight of any of them
UniqueDocsGlobally(summaries) ==
    LET all == AllEvidence(summaries)
    IN \A a \in 1..Len(all), b \in 1..Len(all) : a # b => all[a] # all[b]

\* IntSchemaOK without the min_items/max_items bound of line 96
IntSchemaOKAnyCount(summaries) ==
    /\ \A i \in 1..Len(summaries) : TextOK(summaries[i].claim)
    /\ LET ps == Persps(summaries)
       IN \A i \in 1..Len(ps) :
             /\ TextOK(ps[i].text)
             /\ ps[i].evidence_docs # <<>>
             /\ NoneId \notin Range(ps[i].evidence_docs)
    /\ UniqueDocsGlobally(summaries)

\* IntSchemaOK with a uniqueness validator that compares perspectives with
\* each other only
IntSchemaOKAcrossOnly(summaries) ==
    /\ Len(summaries) = 2
    /\ \A i \in 1..Len(summaries) : TextOK(summaries[i].claim)
    /\ LET ps == Persps(summaries)
       IN /\ \A i \in 1..Len(ps) :
                /\ TextOK(ps[i].text)
                /\ ps[i].evidence_docs # <<>>
                /\ NoneId \notin Range(ps[i].evidence_docs)
          /\ \A i \in 1..Len(ps), j \in 1..Len(ps) :
                i # j => Range(ps[i].evidence_docs) \cap Range(ps[j].evidence_docs) = {}

\* lines 63-109: MultiPerspectiveSummary(summaries=...) does not raise
IntSchemaOK(summaries) ==
    /\ Len(summaries) = 2
    /\ \A i \in 1..Len(summaries) : TextOK(summaries[i].claim)
    /\ LET ps == Persps(summaries)
       IN \A i \in 1..Len(ps) :
             /\ TextOK(ps[i].text)
             /\ ps[i].evidence_docs # <<>>
             /\ NoneId \notin Range(ps[i].evidence_docs)
    /\ UniqueDocsGlobally(summaries)

(* ------------------- summarize_query, integer-id mode ------------------ *)

Doc(i) == [has_id |-> TRUE, id |-> i]
\* a document without the key 'id'
NoIdDoc == [has_id |-> FALSE, id |-> NoneId]

Min(a, b) == IF a < b THEN a ELSE b

\* "for attempt in range(max_retries)" goes on to run attempt number `attempt`
InRangeOffByOne(attempt, max_retries) == attempt <= max_retries
InRange(attempt, max_retries) == attempt < max_retries

\* line 177: [doc.get('id') for doc in merged_corpus]
AvailableDocIds(merged_corpus) ==
    [i \in 1..Len(merged_corpus) |-> merged_corpus[i].id]

\* FallbackIds without the [:min(3, n)] slice
FallbackIdsOfAll(merged_corpus) ==
    [i \in 1..Len(merged_corpus) |-> merged_corpus[i].id]

\* line 258 (and merged line 204): the ids of the first min(3, n) documents
FallbackIds(merged_corpus) ==
    [i \in 1..Min(FallbackDocs, Len(merged_corpus)) |-> merged_corpus[i].id]

(* str(e) of the exception a failed attempt ends with: the text its cause   *)
(* produces, known by that cause and by its length.  A prefix of a text is *)
(* the same cause with a smaller length.                                   *)
Exc(kind, len) == [kind |-> kind, len |-> len]
\* no exception is bound
NoExc == Exc("none", 0)
\* the lengths of the exception texts of the generator and of the parser
ErrLens == {0, TruncLen - 1, TruncLen, TruncLen + 1, MaxErrLen}

\* the exception an attempt raises after the sanitizer has answered: line 227
\* raises ValueError with its literal text; a pydantic ValidationError names
\* the model, the field and the broken rule, a text longer than any budget
ExcOf(error) ==
    IF error = "sanitization" THEN Exc("sanitization", SanitizationMsgLen)
    ELSE Exc("validation", MaxErrLen)

\* text[:n]
Slice(text, n) == [text EXCEPT !.len = Min(text.len, n)]

\* ErrorText with the slice forgotten
ErrorTextUntruncated(e) == [prefix |-> "Error generating summary: ", rest |-> e]

\* lines 264 and 273: f"Error generating summary: {str(e)[:100]}"
ErrorText(e) ==
    [prefix |-> "Error generating summary: ", rest |-> Slice(e, TruncLen)]

\* IntFallback with the placeholder texts whatever the caller supplied
IntFallbackPlaceholders(merged_corpus, claims, e) ==
    << MkClaim("Positive claim", <<MkPersp(ErrorText(e), FallbackIds(merged_corpus))>>),
       MkClaim("Negative claim", <<MkPersp(ErrorText(e), FallbackIds(merged_corpus))>>) >>

\* lines 259-278
IntFallback(merged_corpus, claims, e) ==
    << MkClaim(IF Len(claims) > 0 THEN claims[1] ELSE "Positive claim",
               <<MkPersp(ErrorText(e), FallbackIds(merged_corpus))>>),
       MkClaim(IF Len(claims) > 1 THEN claims[2] ELSE "Negative claim",
               <<MkPersp(ErrorText(e), FallbackIds(merged_corpus))>>) >>

\* IntAfterSanitize returning [] when nothing survives, instead of raising
IntAfterSanitizeReturningEmpty(raw_dict, sanitized_dict) ==
    IF Truthy(sanitized_dict)
    THEN [last_json |-> sanitized_dict,
          returns |-> IntSchemaOK(sanitized_dict.summaries),
          value |-> sanitized_dict.summaries,
          error |-> "validation"]
    ELSE [last_json |-> raw_dict, returns |-> TRUE, value |-> <<>>,
          error |-> "sanitization"]

\* IntAfterSanitize validating and returning the raw structure instead of
\* the sanitized one
IntAfterSanitizeUsingRaw(raw_dict, sanitized_dict) ==
    IF Truthy(sanitized_dict)
    THEN [last_json |-> sanitized_dict,
          returns |-> IntSchemaOK(raw_dict.summaries),
          value |-> raw_dict.summaries,
          error |-> "validation"]
    ELSE [last_json |-> raw_dict, returns |-> FALSE, value |-> <<>>,
          error |-> "sanitization"]

\* IntAfterSanitize with "last_json = result_dict" for the "last_json =
\* sanitized" of lines 221 and 233
IntAfterSanitizeRetainingRaw(raw_dict, sanitized_dict) ==
    IF Truthy(sanitized_dict)
    THEN [last_json |-> raw_dict,
          returns |-> IntSchemaOK(sanitized_dict.summaries),
          value |-> sanitized_dict.summaries,
          error |-> "validation"]
    ELSE [last_json |-> raw_dict, returns |-> FALSE, value |-> <<>>,
          error |-> "sanitization"]

\* lines 220-227 (and 232-238): what the attempt does with the sanitizer's
\* answer: the structure it retains, whether it returns, and with what
IntAfterSanitize(raw_dict, sanitized_dict) ==
    IF Truthy(sanitized_dict)
    THEN [last_json |-> sanitized_dict,
          returns |-> IntSchemaOK(sanitized_dict.summaries),
          value |-> sanitized_dict.summaries,
          error |-> "validation"]
    ELSE [last_json |-> raw_dict, returns |-> FALSE, value |-> <<>>,
          error |-> "sanitization"]

\* IntExcept without the best-effort return of lines 246-254
IntExceptAlwaysFallback(attempt, lj, e, merged_corpus, claims) ==
    IF attempt = IntMaxRetries - 1
    THEN [pc |-> "returned", ret |-> IntFallback(merged_corpus, claims, e),
          outcome |-> "fallback"]
    ELSE [pc |-> "loop", ret |-> <<>>, outcome |-> "none"]

\* IntExcept taking the attempt before the last for the last (line 244 with
\* max_retries - 2)
IntExceptGivingUpEarly(attempt, lj, e, merged_corpus, claims) ==
    IF attempt = IntMaxRetries - 2
    THEN [pc |-> "returned", ret |-> IntFallback(merged_corpus, claims, e),
          outcome |-> "fallback"]
    ELSE [pc |-> "loop", ret |-> <<>>, outcome |-> "none"]

\* IntExcept with a short-circuit of its own: a parse error ends the loop
IntExceptAbortingOnParseError(attempt, lj, e, merged_corpus, claims) ==
    IF attempt = IntMaxRetries - 1 \/ e.kind = "json"
    THEN IF Truthy(lj) /\ lj.summaries_key # "absent"
         THEN IF lj.summaries_key = "null"
              THEN [pc |-> "raised", ret |-> <<>>, outcome |-> "raised"]
              ELSE [pc |-> "returned", ret |-> lj.summaries, outcome |-> "best_effort"]
         ELSE [pc |-> "returned", ret |-> IntFallback(merged_corpus, claims, e),
               outcome |-> "fallback"]
    ELSE [pc |-> "loop", ret |-> <<>>, outcome |-> "none"]

\* lines 242-279: the except block of attempt number `attempt`, with the
\* structure retained so far
IntExcept(attempt, lj, e, merged_corpus, claims) ==
    IF attempt = IntMaxRetries - 1
    THEN IF Truthy(lj) /\ lj.summaries_key # "absent"
         THEN IF lj.summaries_key = "null"
              \* line 249: "for claim in None" raises TypeError in the handler
              THEN [pc |-> "raised", ret |-> <<>>, outcome |-> "raised"]
              ELSE [pc |-> "returned", ret |-> lj.summaries, outcome |-> "best_effort"]
         ELSE [pc |-> "returned", ret |-> IntFallback(merged_corpus, claims, e),
               outcome |-> "fallback"]
    ELSE [pc |-> "loop", ret |-> <<>>, outcome |-> "none"]

(* ------------------- summarize_query, mixed-id mode -------------------- *)

(* A mixed-mode evidence id is an int or a str; a str is the sequence of   *)
(* its characters.                                                         *)
IntId(n) == [kind |-> "int", n |-> n, s |-> <<>>]
StrId(s) == [kind |-> "str", n |-> 0, s |-> s]

Digits == {"0", "1", "2", "3", "4", "5", "6", "7", "8", "9"}
DigitValue(c) ==
    CASE c = "0" -> 0 [] c = "1" -> 1 [] c = "2" -> 2 [] c = "3" -> 3 [] c = "4" -> 4
      [] c = "5" -> 5 [] c = "6" -> 6 [] c = "7" -> 7 [] c = "8" -> 8 [] c = "9" -> 9

\* str.strip()
RECURSIVE LStrip(_)
LStrip(s) == IF s # <<>> /\ Head(s) = " " THEN LStrip(Tail(s)) ELSE s
RECURSIVE RStrip(_)
RStrip(s) == IF s # <<>> /\ s[Len(s)] = " " THEN RStrip(SubSeq(s, 1, Len(s) - 1)) ELSE s
Strip(s) == RStrip(LStrip(s))

\* str.lower(), on the letters of the model's strings
LowerChar(c) == CASE c = "D" -> "d" [] c = "O" -> "o" [] c = "C" -> "c" [] OTHER -> c
Lower(s) == [i \in 1..Len(s) |-> LowerChar(s[i])]

\* str.startswith(prefix)
StartsWith(s, prefix) == Len(s) >= Len(prefix) /\ SubSeq(s, 1, Len(prefix)) = prefix

\* s.split(" ", 1)[1], for an s that holds a space
AfterFirstSpace(s) ==
    LET i == CHOOSE k \in 1..Len(s) : s[k] = " " /\ \A m \in 1..(k-1) : s[m] # " "
    IN SubSeq(s, i + 1, Len(s))

\* str.isdigit()
IsDigit(s) == s # <<>> /\ \A i \in 1..Len(s) : s[i] \in Digits

\* int(s) of a digit string
RECURSIVE ToInt(_)
ToInt(s) == IF s = <<>> THEN 0
            ELSE 10 * ToInt(SubSeq(s, 1, Len(s) - 1)) + DigitValue(s[Len(s)])

\* NormalizeId testing the prefix without lower()
NormalizeIdCaseSensitive(eid) ==
    IF eid.kind = "str"
    THEN LET stripped == Strip(eid.s)
             cleaned_id == IF StartsWith(stripped, <<"d", "o", "c", " ">>)
                           THEN Strip(AfterFirstSpace(stripped))
                           ELSE stripped
         IN IF IsDigit(cleaned_id) THEN IntId(ToInt(cleaned_id)) ELSE StrId(cleaned_id)
    ELSE eid

\* merged lines 147-156: one evidence id
NormalizeId(eid) ==
    IF eid.kind = "str"
    THEN LET stripped == Strip(eid.s)
             cleaned_id == IF StartsWith(Lower(stripped), <<"d", "o", "c", " ">>)
                           THEN Strip(AfterFirstSpace(stripped))
                           ELSE stripped
         IN IF IsDigit(cleaned_id) THEN IntId(ToInt(cleaned_id)) ELSE StrId(cleaned_id)
    ELSE eid

\* merged lines 138-162
normalize_evidence_ids(summary_list) ==
    [c \in 1..Len(summary_list) |->
        MkClaim(summary_list[c].claim,
                [q \in 1..Len(summary_list[c].perspectives) |->
                    MkPersp(summary_list[c].perspectives[q].text,
                            [k \in 1..Len(summary_list[c].perspectives[q].evidence_docs) |->
                                NormalizeId(summary_list[c].perspectives[q].evidence_docs[k])])])]

\* merged lines 15-48: MultiPerspectiveSummary(**result_dict) does not raise
\* (this schema has no uniqueness validator)
MixedSchemaOK(d) ==
    /\ d.summaries_key = "list"
    /\ Len(d.summaries) = 2
    /\ \A i \in 1..Len(d.summaries) : TextOK(d.summaries[i].claim)
    /\ LET ps == Persps(d.summaries)
       IN \A i \in 1..Len(ps) : TextOK(ps[i].text) /\ ps[i].evidence_docs # <<>>

\* merged line 204: [doc.get('id', '') for doc in merged_corpus[:min(3, n)]]
MixedFallbackIds(merged_corpus) ==
    [i \in 1..Min(FallbackDocs, Len(merged_corpus)) |->
        IF merged_corpus[i].has_id THEN merged_corpus[i].id ELSE StrId(<<>>)]

\* MixedErrorMsg with the test of line 198 inverted
MixedErrorMsgInverted(hit) ==
    IF ~hit THEN "JSON parse errors 5+ times (prompt too long)"
    ELSE "All 10 generation attempts failed"

\* merged lines 198-201
MixedErrorMsg(hit) ==
    IF hit THEN "JSON parse errors 5+ times (prompt too long)"
    ELSE "All 10 generation attempts failed"

\* merged lines 204-224
MixedFallback(merged_corpus, hit) ==
    normalize_evidence_ids(
        << MkClaim("Positive claim",
                   <<MkPersp(MixedErrorMsg(hit), MixedFallbackIds(merged_corpus))>>),
           MkClaim("Negative claim",
                   <<MkPersp(MixedErrorMsg(hit), MixedFallbackIds(merged_corpus))>>) >>)

\* ReachedThreshold with > for >=
ReachedThresholdStrict(errors) == errors > json_error_threshold
\* merged line 190: json_errors >= json_error_threshold
ReachedThreshold(errors) == errors >= json_error_threshold

\* MixedExcept counting consecutive parse errors only: any other failure
\* resets the counter
MixedExceptResetting(attempt, errors, is_json_error, merged_corpus) ==
    LET je == IF is_json_error THEN errors + 1 ELSE 0
    IN IF is_json_error /\ ReachedThreshold(je)
       THEN [pc |-> "returned", json_errors |-> je, hit |-> TRUE,
             ret |-> MixedFallback(merged_corpus, TRUE), outcome |-> "fallback"]
       ELSE IF InRange(attempt + 1, MixedMaxRetries)
            THEN [pc |-> "loop", json_errors |-> je, hit |-> FALSE,
                  ret |-> <<>>, outcome |-> "none"]
            ELSE [pc |-> "returned", json_errors |-> je, hit |-> FALSE,
                  ret |-> MixedFallback(merged_corpus, FALSE), outcome |-> "fallback"]

\* MixedExcept leaving the loop at the threshold without setting
\* hit_json_threshold (line 191 dropped)
MixedExceptForgettingFlag(attempt, errors, is_json_error, merged_corpus) ==
    LET je == IF is_json_error THEN errors + 1 ELSE errors
    IN IF (is_json_error /\ ReachedThreshold(je)) \/ ~InRange(attempt + 1, MixedMaxRetries)
       THEN [pc |-> "returned", json_errors |-> je, hit |-> FALSE,
             ret |-> MixedFallback(merged_corpus, FALSE), outcome |-> "fallback"]
       ELSE [pc |-> "loop", json_errors |-> je, hit |-> FALSE,
             ret |-> <<>>, outcome |-> "none"]

\* merged lines 186-224: the except blocks of attempt number `attempt` and,
\* when the loop is over, the fallback return
MixedExcept(attempt, errors, is_json_error, merged_corpus) ==
    LET je == IF is_json_error THEN errors + 1 ELSE errors
    IN IF is_json_error /\ ReachedThreshold(je)
       THEN [pc |-> "returned", json_errors |-> je, hit |-> TRUE,
             ret |-> MixedFallback(merged_corpus, TRUE), outcome |-> "fallback"]
       ELSE IF InRange(attempt + 1, MixedMaxRetries)
            THEN [pc |-> "loop", json_errors |-> je, hit |-> FALSE,
                  ret |-> <<>>, outcome |-> "none"]
            ELSE [pc |-> "returned", json_errors |-> je, hit |-> FALSE,
                  ret |-> MixedFallback(merged_corpus, FALSE), outcome |-> "fallback"]

(* ------------------ the universe of raw results ------------------------ *)

EvidenceLists == SeqsUpTo(DocIds \cup {NoneId}, MaxEvidence)
RawPerspectives == {MkPersp(t, ev) : t \in PerspTexts, ev \in EvidenceLists}

\* cut[i] is the claim perspective i belongs to; claims may be left empty
NonDecreasing(n, k) ==
    {cut \in [1..n -> 1..k] : \A i \in 1..n, j \in 1..n : i <= j => cut[i] <= cut[j]}

BuildClaims(flat, cut, texts) ==
    [j \in 1..Len(texts) |->
        LET idx == SelectSeq([i \in 1..Len(flat) |-> i], LAMBDA i : cut[i] = j)
        IN MkClaim(texts[j], [m \in 1..Len(idx) |-> flat[idx[m]]])]

\* the lists of at most max_claims claims that hold at most max_persp
\* perspectives between them
RawSummaries(max_persp, max_claims) ==
    UNION {UNION {{BuildClaims(flat, cut, texts) :
                      flat \in [1..n -> RawPerspectives],
                      cut \in NonDecreasing(n, k),
                      texts \in [1..k -> SanClaimTexts]} : k \in 0..max_claims}
              : n \in 0..max_persp}

\* parsed JSON objects: {"summaries": [...]}, {"summaries": null}, an object
\* without the key, and {}
RawResults(max_persp, max_claims) ==
    {SummariesDict(sm) : sm \in RawSummaries(max_persp, max_claims)}
        \cup {MkDict("null", <<>>, FALSE), MkDict("absent", <<>>, TRUE), EmptyDict}

\* available_doc_ids: the ids of a corpus, None for a document without an id
AvailLists ==
    {ids \in SeqsUpTo(DocIds \cup {NoneId}, MaxDocId + 1) :
        \A i \in 1..Len(ids), j \in 1..Len(ids) : i < j => ids[i] < ids[j]}

(* -------------- the inputs and generator outcomes of Spec -------------- *)

Prefix(seq, n) == SubSeq(seq, 1, Min(n, Len(seq)))

\* integer-id corpora: the first n documents of 1, 2, ..., the same documents
\* in descending order, and two corpora with a document that has no id
IntCorpora ==
    {Prefix([i \in 1..MaxCorpus |-> Doc(i)], n) : n \in 0..MaxCorpus}
        \cup {[i \in 1..MaxCorpus |-> Doc(MaxCorpus + 1 - i)]}
        \cup {<<NoIdDoc>>, <<Doc(1), NoIdDoc>>}

\* the claims argument of the integer-id summarize_query
ClaimArgs == {<<>>, <<"pos">>, <<"pos", "neg">>}

\* the claims a generated structure is built from: well-formed claims citing
\* one document, one citing a document twice, one with a blank claim text and
\* one with a blank perspective text
GenClaims ==
    {MkClaim("c", <<MkPersp("t", <<d>>)>>) : d \in 1..3}
        \cup {MkClaim("c", <<MkPersp("t", <<1, 1>>)>>),
              MkClaim(" ", <<MkPersp("t", <<1>>)>>),
              MkClaim("c", <<MkPersp(" ", <<2>>)>>)}

\* three well-formed claims citing three different documents
ThreeClaims == [i \in 1..3 |-> MkClaim("c", <<MkPersp("t", <<i>>)>>)]

GenSummaries == SeqsUpTo(GenClaims, MaxGenClaims) \cup {ThreeClaims}

\* what json.loads may return for a raw string, in integer-id mode
IntGenDicts ==
    {SummariesDict(sm) : sm \in GenSummaries}
        \cup {MkDict("null", <<>>, FALSE), MkDict("absent", <<>>, TRUE), EmptyDict}

\* a structured object is an instance of the schema it was generated for
IntGenObjects == {sm \in GenSummaries : IntSchemaOK(sm)}

\* mixed-id strings
S_7 == <<"7">>
S_Doc7 == <<"D", "o", "c", " ", "7">>
S_doc07 == <<" ", "d", "o", "c", " ", " ", "0", "7", " ">>
S_docx == <<"d", "o", "c", "-", "x">>
S_url == <<"u", ":", "x">>
MixedIds == {IntId(1), IntId(7), StrId(S_7), StrId(S_Doc7), StrId(S_doc07),
             StrId(S_docx), StrId(S_url), StrId(<<>>)}

MixedCorpora ==
    {Prefix(<<Doc(IntId(1)), Doc(StrId(S_7)), Doc(StrId(S_url)), Doc(IntId(7)),
              Doc(StrId(S_docx))>>, n) : n \in 0..MaxCorpus}
        \cup {<<NoIdDoc>>}

\* the evidence lists the generator cites in mixed-id mode
MixedGenEvidence ==
    {<<IntId(1)>>, <<StrId(S_Doc7)>>, <<StrId(S_docx)>>, <<IntId(7), StrId(S_7)>>, <<>>}

MixedGenClaims ==
    {MkClaim("c", <<MkPersp("t", ev)>>) : ev \in MixedGenEvidence}
        \cup {MkClaim(" ", <<MkPersp("t", <<IntId(1)>>)>>),
              MkClaim("c", <<MkPersp(" ", <<IntId(1)>>)>>)}

MixedThreeClaims == [i \in 1..3 |-> MkClaim("c", <<MkPersp("t", <<IntId(i)>>)>>)]

MixedGenSummaries == SeqsUpTo(MixedGenClaims, MaxGenClaims) \cup {MixedThreeClaims}

MixedGenDicts ==
    {SummariesDict(sm) : sm \in MixedGenSummaries}
        \cup {MkDict("null", <<>>, FALSE), MkDict("absent", <<>>, TRUE), EmptyDict}

MixedGenObjects == {sm \in MixedGenSummaries : MixedSchemaOK(SummariesDict(sm))}

(* ---------------- is_error_summary (find_valid_queries.py) ------------- *)

\* the characters of the texts the model writes as whole strings
Chars(s) ==
    CASE s = "t" -> <<"t">>
      [] s = " " -> <<" ">>
      [] s = "Error generating summary: " ->
           <<"E", "r", "r", "o", "r", " ", "g", "e", "n", "e", "r", "a", "t", "i",
           "n", "g", " ", "s", "u", "m", "m", "a", "r", "y", ":", " ">>
      [] s = "JSON parse errors 5+ times (prompt too long)" ->
           <<"J", "S", "O", "N", " ", "p", "a", "r", "s", "e", " ", "e", "r", "r",
           "o", "r", "s", " ", "5", "+", " ", "t", "i", "m", "e", "s", " ", "(",
           "p", "r", "o", "m", "p", "t", " ", "t", "o", "o", " ", "l", "o", "n",
           "g", ")">>
      [] s = "All 10 generation attempts failed" ->
           <<"A", "l", "l", " ", "1", "0", " ", "g", "e", "n", "e", "r", "a", "t",
           "i", "o", "n", " ", "a", "t", "t", "e", "m", "p", "t", "s", " ", "f",
           "a", "i", "l", "e", "d">>

\* the characters of the integer-id fallback's text: the prefix followed by
\* the characters of the exception text, of which the length is known
ErrorTextChars(text) == Chars(text.prefix) \o [i \in 1..text.rest.len |-> "?"]

\* a summary with every perspective text written as its characters;
\* formatted: the texts are the integer-id fallback's
WithChars(summary, formatted) ==
    [c \in 1..Len(summary) |->
        MkClaim(summary[c].claim,
                [q \in 1..Len(summary[c].perspectives) |->
                    MkPersp(IF formatted
                            THEN ErrorTextChars(summary[c].perspectives[q].text)
                            ELSE Chars(summary[c].perspectives[q].text),
                            summary[c].perspectives[q].evidence_docs)])]

\* sub in s
Contains(s, sub) ==
    \E i \in 0..(Len(s) - Len(sub)) : SubSeq(s, i + 1, i + Len(sub)) = sub

\* find_valid_queries.py line 52
OfflineMarker ==
    <<"E", "r", "r", "o", "r", " ", "g", "e", "n", "e", "r", "a", "t", "i",
    "n", "g", " ", "s", "u", "m", "m", "a", "r", "y", ":">>
\* find_valid_queries.py line 46
ParseErrorMarker == Chars("JSON parse errors 5+ times (prompt too long)")
\* find_valid_queries.py line 48
AllFailedMarker == Chars("All 10 generation attempts failed")

\* is_error_summary looking for the offline pattern whatever is_merged says
is_error_summary_offline_only(summary, is_merged) ==
    \E i \in 1..Len(Persps(summary)) :
        StartsWith(Persps(summary)[i].text, OfflineMarker)

\* find_valid_queries.py lines 14-55, for a summary that is a list of claims
\* (its texts sequences of characters)
is_error_summary(summary, is_merged) ==
    \E i \in 1..Len(Persps(summary)) :
        LET text == Persps(summary)[i].text
        IN IF is_merged
           THEN Contains(text, ParseErrorMarker) \/ Contains(text, AllFailedMarker)
           ELSE StartsWith(text, OfflineMarker)

(* ------------------------------ state ---------------------------------- *)

VARIABLES
    mode,               \* "int": llm_summary.py, "mixed": llm_summary_merged.py
    merged_corpus,      \* argument of summarize_query
    claims,             \* argument of summarize_query (integer-id mode)
    pc,                 \* position of the call under way
    attempt,            \* the loop variable
    invocations,        \* calls of the generator made so far
    json_errors,        \* mixed-id mode
    hit_json_threshold, \* mixed-id mode
    last_json,          \* integer-id mode: best-effort parsed JSON
    last_error,         \* integer-id mode: the exception e (line 242) of the
                        \* attempt the call ended in, which the fallback text embeds
    only_raised,        \* history: every attempt made so far ended with the
                        \* generator call itself raising
    only_unparsable,    \* history: every attempt made so far ended with
                        \* json.loads raising on the raw string
    ret,                \* the value returned
    outcome,            \* which return statement returned it
    result_dict,        \* integer-id mode: the parsed raw result the latest
                        \* attempt handed to the sanitizer (NoJson: it did not
                        \* get that far); mixed-id mode: the object the attempt
                        \* the call ended in parsed its string to
    available_doc_ids,  \* the id list handed to the sanitizer
    sanitized,          \* what the sanitizer returned for it
    resanitized,        \* what it returned for its own output (SpecSan)
    model_cache,        \* _model_cache: the model names it has a key for
    tokenizer_cache,    \* _tokenizer_cache: likewise
    outlines_model_cache, \* _outlines_model_cache: likewise
    loads,              \* per model name, the calls of
                        \* AutoModelForCausalLM.from_pretrained made so far
    callers             \* SpecLoad: per caller of _get_outlines_model, its
                        \* position and its model_name argument

vars == <<mode, merged_corpus, claims, pc, attempt, invocations, json_errors,
          hit_json_threshold, last_json, last_error, only_raised, only_unparsable,
          ret, outcome, result_dict, available_doc_ids, sanitized, resanitized,
          model_cache, tokenizer_cache, outlines_model_cache, loads, callers>>

callVars == <<mode, merged_corpus, claims>>
loopVars == <<attempt, invocations, json_errors, hit_json_threshold, last_json,
              last_error, only_raised, only_unparsable, ret, outcome>>
cacheVars == <<model_cache, tokenizer_cache, outlines_model_cache, loads, callers>>
sanVars == <<result_dict, sanitized, resanitized>>

(* ------------- the module-level caches of the loaded model ------------- *)

\* line 163 / merged line 99: the one name summarize_query asks for
model_name == "meta-llama/Llama-3.2-3B-Instruct"
\* the names _get_outlines_model is called with
ModelNames == {model_name, "other-model"}

\* lines 10-12: the caches of a fresh process
NothingCached ==
    /\ model_cache = {}
    /\ tokenizer_cache = {}
    /\ outlines_model_cache = {}
    /\ loads = [m \in ModelNames |-> 0]
    /\ callers = <<>>

\* lines 113-126: the body of "if model_name not in _model_cache", run to its
\* end
LoadWeightsOf(m) ==
    /\ tokenizer_cache' = tokenizer_cache \cup {m}
    /\ model_cache' = model_cache \cup {m}
    /\ loads' = [loads EXCEPT ![m] = @ + 1]

\* lines 130-137: one call of _get_outlines_model(m) that nothing interleaves
\* with and that returns
Loaded(m) ==
    /\ outlines_model_cache' = outlines_model_cache \cup {m}
    /\ IF m \in outlines_model_cache \/ m \in model_cache
       THEN UNCHANGED <<model_cache, tokenizer_cache, loads>>
       ELSE LoadWeightsOf(m)

\* lines 130-137: one such call that raises: no GPU (line 115) or the
\* tokenizer's from_pretrained raising leaves the caches as they were, the
\* model's from_pretrained raising leaves the tokenizer cached, and
\* from_transformers raising leaves tokenizer and model cached
LoadRaised(m) ==
    /\ m \notin outlines_model_cache
    /\ UNCHANGED outlines_model_cache
    /\ \/ /\ m \notin model_cache
          /\ tokenizer_cache' \in {tokenizer_cache, tokenizer_cache \cup {m}}
          /\ UNCHANGED <<model_cache, loads>>
       \/ IF m \in model_cache
          THEN UNCHANGED <<model_cache, tokenizer_cache, loads>>
          ELSE LoadWeightsOf(m)

(* ----------------- SpecSan: the sanitizer on its own ------------------- *)

InitSan ==
    /\ mode = "san"
    /\ merged_corpus = <<>>
    /\ claims = <<>>
    /\ pc = "san_start"
    /\ attempt = 0
    /\ invocations = 0
    /\ json_errors = 0
    /\ hit_json_threshold = FALSE
    /\ last_json = NoJson
    /\ last_error = NoExc
    /\ only_raised = TRUE
    /\ only_unparsable = TRUE
    /\ ret = <<>>
    /\ outcome = "none"
    /\ result_dict \in RawResults(MaxPersp, MaxClaims)
    /\ available_doc_ids \in AvailLists
    /\ sanitized = EmptyDict
    /\ resanitized = EmptyDict
    /\ NothingCached

\* one call of the sanitizer on the raw result, and one on what it returned
Sanitize ==
    /\ pc = "san_start"
    /\ sanitized' = sanitize_result_dict(result_dict, available_doc_ids)
    /\ resanitized' = sanitize_result_dict(sanitized', available_doc_ids)
    /\ pc' = "san_done"
    /\ UNCHANGED <<callVars, cacheVars, loopVars, result_dict, available_doc_ids>>

NextSan == Sanitize

SpecSan == InitSan /\ [][NextSan]_vars

(* --------------------- Spec: summarize_query --------------------------- *)

Init ==
    /\ mode \in {"int", "mixed"}
    /\ merged_corpus \in (IF mode = "int" THEN IntCorpora ELSE MixedCorpora)
    /\ claims \in (IF mode = "int" THEN ClaimArgs ELSE {<<>>})
    /\ pc = "entry"
    /\ attempt = 0
    /\ invocations = 0
    /\ json_errors = 0
    /\ hit_json_threshold = FALSE
    /\ last_json = NoJson
    /\ last_error = NoExc
    /\ only_raised = TRUE
    /\ only_unparsable = TRUE
    /\ ret = <<>>
    /\ outcome = "none"
    /\ result_dict = NoJson
    /\ available_doc_ids = <<>>
    /\ sanitized = NoJson
    /\ resanitized = EmptyDict
    /\ NothingCached

\* line 159 / merged line 96
GuardFails ==
    \/ merged_corpus = <<>>
    \/ mode = "int" /\ Len(claims) < 2

Return(value, how) ==
    /\ pc' = "returned"
    /\ ret' = value
    /\ outcome' = how

\* EnterGuard with the guard placed after the try of lines 165-170: the model
\* is loaded before the arguments are looked at
EnterGuardAfterLoading ==
    /\ pc = "entry"
    /\ GuardFails
    /\ Return(<<>>, "empty_input")
    /\ Loaded(model_name)
    /\ UNCHANGED <<callVars, callers, attempt, invocations, json_errors, hit_json_threshold,
                   last_json, last_error, only_raised, only_unparsable,
                   sanVars, available_doc_ids>>

\* lines 159-160 / merged lines 96-97: return [] before anything is loaded
EnterGuard ==
    /\ pc = "entry"
    /\ GuardFails
    /\ Return(<<>>, "empty_input")
    /\ UNCHANGED <<callVars, cacheVars, attempt, invocations, json_errors, hit_json_threshold,
                   last_json, last_error, only_raised, only_unparsable,
                   sanVars, available_doc_ids>>

\* EnterLoadFails answering with the fallback summary instead of []
EnterLoadFailsWithFallback ==
    /\ pc = "entry"
    /\ ~GuardFails
    /\ Return(MixedFallback(merged_corpus, FALSE), "load_failed")
    /\ LoadRaised(model_name)
    /\ UNCHANGED <<callVars, callers, attempt, invocations, json_errors, hit_json_threshold,
                   last_json, last_error, only_raised, only_unparsable,
                   sanVars, available_doc_ids>>

\* lines 166-170 / merged lines 102-106: _get_outlines_model raises
EnterLoadFails ==
    /\ pc = "entry"
    /\ ~GuardFails
    /\ Return(<<>>, "load_failed")
    /\ LoadRaised(model_name)
    /\ UNCHANGED <<callVars, callers, attempt, invocations, json_errors, hit_json_threshold,
                   last_json, last_error, only_raised, only_unparsable,
                   sanVars, available_doc_ids>>

\* lines 173-176: doc['id'] of a document without an id raises KeyError,
\* outside any try
IntEnterKeyError ==
    /\ pc = "entry"
    /\ mode = "int"
    /\ ~GuardFails
    /\ \E i \in 1..Len(merged_corpus) : ~merged_corpus[i].has_id
    /\ pc' = "raised"
    /\ outcome' = "raised"
    /\ Loaded(model_name)
    /\ UNCHANGED <<callVars, callers, attempt, invocations, json_errors, hit_json_threshold,
                   last_json, last_error, only_raised, only_unparsable,
                   ret, sanVars,
                   available_doc_ids>>

\* lines 172-206 / merged lines 108-167: the model is loaded, the prompt is
\* built, the loop starts
EnterLoop ==
    /\ pc = "entry"
    /\ ~GuardFails
    /\ mode = "int" => \A i \in 1..Len(merged_corpus) : merged_corpus[i].has_id
    /\ pc' = "loop"
    /\ available_doc_ids' = IF mode = "int" THEN AvailableDocIds(merged_corpus) ELSE <<>>
    /\ Loaded(model_name)
    /\ UNCHANGED <<callVars, loopVars, sanVars, callers>>

\* the attempt under way does not reach the sanitizer
NotSanitized ==
    /\ result_dict' = NoJson
    /\ sanitized' = NoJson

IntAttempting ==
    /\ pc = "loop"
    /\ mode = "int"
    /\ InRange(attempt, IntMaxRetries)
    /\ invocations' = invocations + 1

\* IntFail with "last_json = None" of line 203 moved into the loop: an attempt
\* that retains nothing forgets what earlier attempts retained
IntFailDroppingRetained(e, lj) ==
    LET kept == IF e.kind \in {"generator", "json", "malformed"} THEN NoJson ELSE lj
        x == IntExcept(attempt, kept, e, merged_corpus, claims)
    IN /\ pc' = x.pc
       /\ ret' = x.ret
       /\ outcome' = x.outcome
       /\ attempt' = IF x.pc = "loop" THEN attempt + 1 ELSE attempt
       /\ last_json' = kept
       /\ last_error' = IF x.pc = "loop" THEN NoExc ELSE e

\* the except block of lines 242-279 after an attempt that retained lj and
\* ended with exception e
IntFail(e, lj) ==
    LET x == IntExcept(attempt, lj, e, merged_corpus, claims)
    IN /\ pc' = x.pc
       /\ ret' = x.ret
       /\ outcome' = x.outcome
       /\ attempt' = IF x.pc = "loop" THEN attempt + 1 ELSE attempt
       /\ last_json' = lj
       \* e is unbound again when the except block is left (Python deletes the
       \* target of "except ... as e" at its end)
       /\ last_error' = IF x.pc = "loop" THEN NoExc ELSE e

\* line 210 raises
IntGenRaises ==
    /\ IntAttempting
    /\ \E n \in ErrLens : IntFail(Exc("generator", n), last_json)
    /\ NotSanitized
    /\ UNCHANGED only_raised
    /\ only_unparsable' = FALSE
    /\ UNCHANGED <<callVars, cacheVars, json_errors, hit_json_threshold, resanitized,
                   available_doc_ids>>

\* line 218: json.loads raises on the raw string
IntGenUnparsable ==
    /\ IntAttempting
    /\ \E n \in ErrLens : IntFail(Exc("json", n), last_json)
    /\ NotSanitized
    /\ only_raised' = FALSE
    /\ UNCHANGED only_unparsable
    /\ UNCHANGED <<callVars, cacheVars, json_errors, hit_json_threshold, resanitized,
                   available_doc_ids>>

\* lines 218-219: the string parses to something the sanitizer raises on (not
\* an object, or an object with a member of the wrong type)
IntGenMalformed ==
    /\ IntAttempting
    /\ \E n \in ErrLens : IntFail(Exc("malformed", n), last_json)
    /\ NotSanitized
    /\ only_raised' = FALSE
    /\ only_unparsable' = FALSE
    /\ UNCHANGED <<callVars, cacheVars, json_errors, hit_json_threshold, resanitized,
                   available_doc_ids>>

\* lines 219-227 and 231-238: sanitize, retain, validate, return or raise
IntProcess(d) ==
    LET san == sanitize_result_dict(d, available_doc_ids)
        x == IntAfterSanitize(d, san)
    IN /\ result_dict' = d
       /\ sanitized' = san
       /\ IF x.returns
          THEN /\ Return(x.value, "success")
               /\ last_json' = x.last_json
               /\ last_error' = NoExc
               /\ UNCHANGED attempt
          ELSE IntFail(ExcOf(x.error), x.last_json)

\* lines 217-227: the generator returns a string that parses to an object
IntGenString ==
    /\ IntAttempting
    /\ \E d \in IntGenDicts : IntProcess(d)
    /\ only_raised' = FALSE
    /\ only_unparsable' = FALSE
    /\ UNCHANGED <<callVars, cacheVars, json_errors, hit_json_threshold, resanitized,
                   available_doc_ids>>

\* lines 228-238: the generator returns an object with .summaries
IntGenObject ==
    /\ IntAttempting
    /\ \E sm \in IntGenObjects : IntProcess(SummariesDict(sm))
    /\ only_raised' = FALSE
    /\ only_unparsable' = FALSE
    /\ UNCHANGED <<callVars, cacheVars, json_errors, hit_json_threshold, resanitized,
                   available_doc_ids>>

\* GenOther with "continue" for the "return []" of line 240: the loop goes on
\* to the next attempt, and falls off its end after the last
GenOtherContinuing ==
    /\ pc = "loop"
    /\ InRange(attempt, IF mode = "int" THEN IntMaxRetries ELSE MixedMaxRetries)
    /\ invocations' = invocations + 1
    /\ IF InRange(attempt + 1, IF mode = "int" THEN IntMaxRetries ELSE MixedMaxRetries)
       THEN /\ attempt' = attempt + 1
            /\ UNCHANGED <<pc, ret, outcome>>
       ELSE /\ Return(<<>>, "other_value")
            /\ UNCHANGED attempt
    /\ NotSanitized
    /\ only_raised' = FALSE
    /\ only_unparsable' = FALSE
    /\ UNCHANGED <<callVars, cacheVars, json_errors, hit_json_threshold, last_json,
                   last_error, resanitized, available_doc_ids>>

\* lines 239-240 / merged lines 183-184: neither a string nor an object with
\* .summaries
GenOther ==
    /\ pc = "loop"
    /\ InRange(attempt, IF mode = "int" THEN IntMaxRetries ELSE MixedMaxRetries)
    /\ invocations' = invocations + 1
    /\ Return(<<>>, "other_value")
    /\ NotSanitized
    /\ only_raised' = FALSE
    /\ only_unparsable' = FALSE
    /\ UNCHANGED <<callVars, cacheVars, attempt, json_errors, hit_json_threshold, last_json,
                   last_error, resanitized, available_doc_ids>>

MixedAttempting ==
    /\ pc = "loop"
    /\ mode = "mixed"
    /\ InRange(attempt, MixedMaxRetries)
    /\ invocations' = invocations + 1

MixedFail(is_json_error) ==
    LET x == MixedExcept(attempt, json_errors, is_json_error, merged_corpus)
    IN /\ pc' = x.pc
       /\ ret' = x.ret
       /\ outcome' = x.outcome
       /\ json_errors' = x.json_errors
       /\ hit_json_threshold' = x.hit
       /\ attempt' = IF x.pc = "loop" THEN attempt + 1 ELSE attempt

MixedSucceed(summaries) ==
    /\ Return(normalize_evidence_ids(summaries), "success")
    /\ UNCHANGED <<attempt, json_errors, hit_json_threshold>>

\* merged line 171 raises
MixedGenRaises ==
    /\ MixedAttempting
    /\ MixedFail(FALSE)
    /\ only_unparsable' = FALSE
    /\ UNCHANGED <<callVars, cacheVars, last_json, last_error, only_raised,
                   sanVars,
                   available_doc_ids>>

\* merged line 178: json.loads raises JSONDecodeError
MixedGenUnparsable ==
    /\ MixedAttempting
    /\ MixedFail(TRUE)
    /\ only_raised' = FALSE
    /\ UNCHANGED only_unparsable
    /\ UNCHANGED <<callVars, cacheVars, last_json, last_error, sanVars, available_doc_ids>>

\* merged lines 178-179: the string parses to something that is no object
MixedGenMalformed ==
    /\ MixedAttempting
    /\ MixedFail(FALSE)
    /\ only_raised' = FALSE
    /\ only_unparsable' = FALSE
    /\ UNCHANGED <<callVars, cacheVars, last_json, last_error, sanVars, available_doc_ids>>

\* merged lines 177-180: the string parses to an object, which is validated
MixedGenString ==
    /\ MixedAttempting
    /\ \E d \in MixedGenDicts :
          /\ IF MixedSchemaOK(d) THEN MixedSucceed(d.summaries)
             ELSE MixedFail(FALSE)
          /\ result_dict' = IF pc' = "loop" THEN NoJson ELSE d
    /\ only_raised' = FALSE
    /\ only_unparsable' = FALSE
    /\ UNCHANGED <<callVars, cacheVars, last_json, last_error, sanitized, resanitized,
                   available_doc_ids>>

\* merged lines 181-182: an object with .summaries is returned as it is
MixedGenObject ==
    /\ MixedAttempting
    /\ \E sm \in MixedGenObjects : MixedSucceed(sm)
    /\ only_raised' = FALSE
    /\ only_unparsable' = FALSE
    /\ UNCHANGED <<callVars, cacheVars, last_json, last_error, sanVars, available_doc_ids>>

Next ==
    \/ EnterGuard
    \/ EnterLoadFails
    \/ IntEnterKeyError
    \/ EnterLoop
    \/ IntGenRaises
    \/ IntGenUnparsable
    \/ IntGenMalformed
    \/ IntGenString
    \/ IntGenObject
    \/ GenOther
    \/ MixedGenRaises
    \/ MixedGenUnparsable
    \/ MixedGenMalformed
    \/ MixedGenString
    \/ MixedGenObject

Spec == Init /\ [][Next]_vars

\* summarize_query runs on: the interpreter takes the next statement, and every
\* call of the generator returns or raises (the assumption termination is
\* claimed under), so a step that is possible is taken
SpecLive == Spec /\ WF_vars(Next)

(* ---------- SpecNorm: _normalize_evidence_ids on its own --------------- *)

\* what a call that has not reached its loop leaves as it is
counterVars == <<attempt, invocations, json_errors, hit_json_threshold, last_json,
                 last_error, only_raised, only_unparsable>>

\* the loop state before the loop
FreshLoop ==
    /\ attempt = 0
    /\ invocations = 0
    /\ json_errors = 0
    /\ hit_json_threshold = FALSE
    /\ last_json = NoJson
    /\ last_error = NoExc
    /\ only_raised = TRUE
    /\ only_unparsable = TRUE

S_Doc_x == <<"D", "o", "c", " ", "x">>
\* an id under two prefixes
S_DocDoc7 == <<"D", "o", "c", " ", "D", "o", "c", " ", "7">>
\* the evidence ids of the summaries normalized in SpecNorm
NormIds == {IntId(7), StrId(S_Doc7), StrId(S_doc07), StrId(S_docx), StrId(S_Doc_x),
            StrId(S_DocDoc7)}

\* the summaries normalized: up to MaxNormIds evidence ids, split between the
\* single perspectives of two claims or between the two perspectives of one
\* claim, under non-blank and blank texts
NormInputs ==
    {<<>>} \cup
    UNION {UNION {{ << MkClaim("c", <<MkPersp("t", SubSeq(f, 1, i))>>),
                       MkClaim(" ", <<MkPersp(" ", SubSeq(f, i + 1, Len(f)))>>) >>,
                    << MkClaim("c", <<MkPersp("t", SubSeq(f, 1, i)),
                                      MkPersp(" ", SubSeq(f, i + 1, Len(f)))>>) >> }
                   : i \in 0..Len(f)}
           : f \in SeqsUpTo(NormIds, MaxNormIds)}

InitNorm ==
    /\ mode = "norm"
    /\ merged_corpus = <<>>
    /\ claims = <<>>
    /\ pc = "norm_start"
    /\ FreshLoop
    /\ ret = <<>>
    /\ outcome = "none"
    /\ result_dict \in {SummariesDict(sm) : sm \in NormInputs}
    /\ available_doc_ids = <<>>
    /\ sanitized = NoJson
    /\ resanitized = EmptyDict
    /\ NothingCached

\* one call of _normalize_evidence_ids
Normalize ==
    /\ pc = "norm_start"
    /\ ret' = normalize_evidence_ids(result_dict.summaries)
    /\ pc' = "norm_done"
    /\ UNCHANGED <<callVars, cacheVars, counterVars, outcome, sanVars,
                   available_doc_ids>>

NextNorm == Normalize

SpecNorm == InitNorm /\ [][NextNorm]_vars

(* ------- SpecLoad: concurrent callers of _get_outlines_model ----------- *)

Callers == 1..NumCallers

\* caller c is at position p
At(c, p) == callers[c].pc = p
\* caller c moves to position p
Goto(c, p) == callers' = [callers EXCEPT ![c].pc = p]

InitLoad ==
    /\ mode = "load"
    /\ merged_corpus = <<>>
    /\ claims = <<>>
    /\ pc = "load"
    /\ FreshLoop
    /\ ret = <<>>
    /\ outcome = "none"
    /\ result_dict = NoJson
    /\ available_doc_ids = <<>>
    /\ sanitized = NoJson
    /\ resanitized = EmptyDict
    /\ model_cache = {}
    /\ tokenizer_cache = {}
    /\ outlines_model_cache = {}
    /\ loads = [m \in ModelNames |-> 0]
    /\ callers \in [Callers -> {[pc |-> "call", model_name |-> m] : m \in ModelNames}]

\* what no step of a caller of _get_outlines_model touches
notCacheVars == <<callVars, pc, loopVars, sanVars, available_doc_ids>>

\* GetCheck without the test of line 132: every call goes on to _load_model
GetCheckIgnoringCache(c) ==
    /\ At(c, "call")
    /\ Goto(c, "load_model")
    /\ UNCHANGED <<notCacheVars, model_cache, tokenizer_cache, outlines_model_cache, loads>>

\* line 132: if model_name not in _outlines_model_cache
GetCheck(c) ==
    /\ At(c, "call")
    /\ Goto(c, IF callers[c].model_name \in outlines_model_cache
               THEN "returned" ELSE "load_model")
    /\ UNCHANGED <<notCacheVars, model_cache, tokenizer_cache, outlines_model_cache, loads>>

\* line 113: if model_name not in _model_cache
LoadCheck(c) ==
    /\ At(c, "load_model")
    /\ Goto(c, IF callers[c].model_name \in model_cache
               THEN "wrap" ELSE "load_tokenizer")
    /\ UNCHANGED <<notCacheVars, model_cache, tokenizer_cache, outlines_model_cache, loads>>

\* lines 114-120: a GPU is there, the tokenizer is loaded and cached
LoadTokenizer(c) ==
    /\ At(c, "load_tokenizer")
    /\ tokenizer_cache' = tokenizer_cache \cup {callers[c].model_name}
    /\ Goto(c, "load_weights")
    /\ UNCHANGED <<notCacheVars, model_cache, outlines_model_cache, loads>>

\* lines 121-126: the model is loaded and cached
LoadWeights(c) ==
    /\ At(c, "load_weights")
    /\ loads' = [loads EXCEPT ![callers[c].model_name] = @ + 1]
    /\ model_cache' = model_cache \cup {callers[c].model_name}
    /\ Goto(c, "wrap")
    /\ UNCHANGED <<notCacheVars, tokenizer_cache, outlines_model_cache>>

\* lines 128 and 133-137: the model is wrapped, cached and returned
Wrap(c) ==
    /\ At(c, "wrap")
    /\ outlines_model_cache' = outlines_model_cache \cup {callers[c].model_name}
    /\ Goto(c, "returned")
    /\ UNCHANGED <<notCacheVars, model_cache, tokenizer_cache, loads>>

\* line 115 (no GPU), or from_pretrained or from_transformers raises
LoadRaises(c) ==
    /\ At(c, "load_tokenizer") \/ At(c, "load_weights") \/ At(c, "wrap")
    /\ Goto(c, "raised")
    /\ UNCHANGED <<notCacheVars, model_cache, tokenizer_cache, outlines_model_cache, loads>>

NextLoad ==
    \E c \in Callers :
        \/ GetCheck(c)
        \/ LoadCheck(c)
        \/ LoadTokenizer(c)
        \/ LoadWeights(c)
        \/ Wrap(c)
        \/ LoadRaises(c)

SpecLoad == InitLoad /\ [][NextLoad]_vars

(* ---- SpecSeq: one process calling summarize_query again and again ----- *)

\* a fresh process whose only thread is about to make its first call; the
\* caller's history lists the calls it has finished, oldest first
InitSeq ==
    /\ mode = "seq"
    /\ merged_corpus = <<>>
    /\ claims = <<>>
    /\ pc = "load"
    /\ FreshLoop
    /\ ret = <<>>
    /\ outcome = "none"
    /\ result_dict = NoJson
    /\ available_doc_ids = <<>>
    /\ sanitized = NoJson
    /\ resanitized = EmptyDict
    /\ model_cache = {}
    /\ tokenizer_cache = {}
    /\ outlines_model_cache = {}
    /\ loads = [m \in ModelNames |-> 0]
    /\ callers \in {<<[pc |-> "call", model_name |-> m, history |-> <<>>]>> :
                       m \in ModelNames}

\* the call has ended (line 137 returned, or summarize_query caught the
\* exception at lines 167-170 and returned []), and the pipeline's loop calls
\* summarize_query for its next query
CallAgain(c) ==
    /\ At(c, "returned") \/ At(c, "raised")
    /\ Len(callers[c].history) < MaxCalls - 1
    /\ \E m \in ModelNames :
          callers' = [callers EXCEPT ![c] =
                         [pc |-> "call", model_name |-> m,
                          history |-> Append(@.history, <<@.model_name, @.pc>>)]]
    /\ UNCHANGED <<notCacheVars, model_cache, tokenizer_cache, outlines_model_cache, loads>>

NextSeq ==
    \E c \in {1} :
        \/ GetCheck(c)
        \/ LoadCheck(c)
        \/ LoadTokenizer(c)
        \/ LoadWeights(c)
        \/ Wrap(c)
        \/ LoadRaises(c)
        \/ CallAgain(c)

SpecSeq == InitSeq /\ [][NextSeq]_vars

(* -------- SpecSchema: MultiPerspectiveSummary on its own --------------- *)

\* the claims of the candidates: well-formed ones citing one document each,
\* and one for every way a claim can be out of order
SchemaClaims ==
    {MkClaim("c", <<MkPersp("t", <<d>>)>>) : d \in DocIds}
        \cup {MkClaim(" ", <<MkPersp("t", <<1>>)>>),
              MkClaim("c", <<MkPersp(" ", <<1>>)>>),
              MkClaim("c", <<MkPersp("t", <<>>)>>),
              MkClaim("c", <<MkPersp("t", <<NoneId>>)>>),
              MkClaim("c", <<MkPersp("t", <<1, 1>>)>>),
              MkClaim("c", <<MkPersp("t", <<1>>), MkPersp("t", <<2>>)>>),
              MkClaim("c", <<MkPersp("t", <<1>>), MkPersp("t", <<1>>)>>),
              MkClaim("c", <<>>)}

SchemaCandidates == SeqsUpTo(SchemaClaims, MaxSchemaClaims)

InitSchema ==
    /\ mode = "schema"
    /\ merged_corpus = <<>>
    /\ claims = <<>>
    /\ pc = "schema_start"
    /\ FreshLoop
    /\ ret = <<>>
    /\ outcome = "none"
    /\ result_dict \in {SummariesDict(sm) : sm \in SchemaCandidates}
    /\ available_doc_ids = <<>>
    /\ sanitized = NoJson
    /\ resanitized = EmptyDict
    /\ NothingCached

\* MultiPerspectiveSummary(**result_dict): it returns or it raises
Validate ==
    /\ pc = "schema_start"
    /\ outcome' = IF IntSchemaOK(result_dict.summaries) THEN "accepted" ELSE "rejected"
    /\ pc' = "schema_done"
    /\ UNCHANGED <<callVars, cacheVars, counterVars, ret, sanVars, available_doc_ids>>

NextSchema == Validate

SpecSchema == InitSchema /\ [][NextSchema]_vars

(* ----------------- claims about _sanitize_result_dict ------------------ *)

SanDone == pc = "san_done"
RawPersps == Persps(result_dict.summaries)
OutPersps == Persps(sanitized.summaries)

\* C3: in the output of _sanitize_result_dict no document id appears in the
\* evidence list of more than one perspective, across all claims.
C3_GlobalUniqueness ==
    SanDone =>
        \A i \in 1..Len(OutPersps), j \in 1..Len(OutPersps) :
            i # j => Range(OutPersps[i].evidence_docs)
                        \cap Range(OutPersps[j].evidence_docs) = {}

\* two raw perspectives cite the same corpus document and both survive
C3_Witness ==
    /\ SanDone
    /\ Len(OutPersps) >= 2
    /\ \E i \in 1..Len(RawPersps), j \in 1..Len(RawPersps) :
          /\ i < j
          /\ Range(RawPersps[i].evidence_docs) \cap Range(RawPersps[j].evidence_docs)
                \cap AvailableSet(available_doc_ids) # {}

\* C4 (as claimed): every evidence id of the output is a member of ids, and no
\* output perspective has an empty evidence list or a blank text.
C4_ValidityAsClaimed ==
    SanDone =>
        \A i \in 1..Len(OutPersps) :
            /\ Range(OutPersps[i].evidence_docs) \subseteq Range(available_doc_ids)
            /\ OutPersps[i].evidence_docs # <<>>
            /\ ~IsBlank(OutPersps[i].text)

\* C4 (amended): every evidence id of the output is a member of ids (and is
\* never None), no output perspective has an empty evidence list, and every
\* output perspective carries the text of a raw perspective, blank or not.
C4_Validity ==
    SanDone =>
        \A i \in 1..Len(OutPersps) :
            /\ Range(OutPersps[i].evidence_docs) \subseteq Range(available_doc_ids)
            /\ NoneId \notin Range(OutPersps[i].evidence_docs)
            /\ OutPersps[i].evidence_docs # <<>>
            /\ \E j \in 1..Len(RawPersps) : OutPersps[i].text = RawPersps[j].text

\* a blank-text perspective survives next to ids that were filtered out
C4_Witness ==
    /\ SanDone
    /\ \E i \in 1..Len(OutPersps) : IsBlank(OutPersps[i].text)
    /\ Cited(result_dict.summaries) \ Range(available_doc_ids) # {}
    /\ NoneId \in Range(available_doc_ids) \cap Cited(result_dict.summaries)

\* C5: sanitizing the sanitized result again with the same ids yields exactly
\* the once-sanitized result, the empty result included.
C5_Idempotent == SanDone => resanitized = sanitized

\* the first pass removed something and kept something
C5_Witness ==
    /\ SanDone
    /\ sanitized # EmptyDict
    /\ sanitized # result_dict
    /\ Len(OutPersps) < Len(RawPersps)
    /\ resanitized = sanitized

\* the evidence ids cited by the perspectives before perspective pi of claim ci
CitedEarlier(summaries, ci, pi) ==
    Cited(SubSeq(summaries, 1, ci - 1))
        \cup UNION {Range(summaries[ci].perspectives[q].evidence_docs) : q \in 1..(pi-1)}

\* the reference pass: what each perspective keeps, said without a running set
RefPerspectives(summaries, ci, ids) ==
    LET ps == summaries[ci].perspectives
        kept == [pi \in 1..Len(ps) |->
                    MkPersp(ps[pi].text,
                            SelectSeq(ps[pi].evidence_docs,
                                      LAMBDA d : /\ d \in ids
                                                 /\ d \notin CitedEarlier(summaries, ci, pi)))]
    IN SelectSeq(kept, LAMBDA q : q.evidence_docs # <<>>)

RefSummaries(summaries, ids) ==
    SelectSeq([ci \in 1..Len(summaries) |->
                  MkClaim(summaries[ci].claim, RefPerspectives(summaries, ci, ids))],
              LAMBDA c : c.perspectives # <<>>)

\* C6: the output equals the reference single pass: each perspective keeps, in
\* order, its evidence ids that are in the available set and were not kept by
\* an earlier perspective; a perspective keeping nothing is dropped, a claim
\* left without perspective is dropped, the rest keeps order and texts; and
\* perspectives citing [1,2] and [2,3] over ids {1,2,3} become [1,2] and [3].
C6_ReferencePass ==
    SanDone =>
        /\ sanitized.summaries =
              RefSummaries(result_dict.summaries, AvailableSet(available_doc_ids))
        /\ (sanitized = EmptyDict) = (sanitized.summaries = <<>>)
        /\ ( /\ Len(RawPersps) = 2
             /\ RawPersps[1].evidence_docs = <<1, 2>>
             /\ RawPersps[2].evidence_docs = <<2, 3>>
             /\ {1, 2, 3} \subseteq Range(available_doc_ids) )
            => /\ Len(OutPersps) = 2
               /\ OutPersps[1].evidence_docs = <<1, 2>>
               /\ OutPersps[2].evidence_docs = <<3>>

\* the spec's scenario 1, with the two perspectives under different claims
C6_Witness ==
    /\ SanDone
    /\ Len(result_dict.summaries) = 2
    /\ Len(RawPersps) = 2
    /\ RawPersps[1].evidence_docs = <<1, 2>>
    /\ RawPersps[2].evidence_docs = <<2, 3>>
    /\ Range(available_doc_ids) = {1, 2, 3}
    /\ Len(sanitized.summaries) = 2

\* C7 (as claimed): only the first occurrence of each document id survives:
\* no id occurs twice anywhere in the output, not even inside the evidence
\* list of one perspective (a perspective citing [1,1] keeps [1]).
C7_FirstOccurrenceOnly ==
    SanDone =>
        \A i \in 1..Len(OutPersps) :
            LET ev == OutPersps[i].evidence_docs
            IN \A a \in 1..Len(ev), b \in 1..Len(ev) : a # b => ev[a] # ev[b]


(* --------------------- claims about summarize_query -------------------- *)

Returned == pc = "returned"

\* C1 (as claimed): for every query, every corpus (documents without an id
\* included) and every generator behaviour, summarize_query never raises to
\* its caller: no error crosses its boundary.  (What the values it does return
\* look like is C2's matter.)
C1_NoErrorCrossesBoundary == pc # "raised"

\* C2 (as claimed): every value returned by summarize_query is an ordered
\* sequence of exactly 2 claims.
C2_ExactlyTwoClaimsAsClaimed == Returned => Len(ret) = 2

\* C2 (amended): every Success and every Fallback value is a sequence of
\* exactly 2 claims; the returns made before or instead of a summary (empty
\* corpus, fewer than 2 claims, model not loaded, unrecognised generator value)
\* are the empty sequence; an integer-id best-effort value is the retained
\* structure, whatever its number of claims.
C2_TwoClaims ==
    Returned =>
        /\ outcome \in {"success", "fallback", "best_effort", "empty_input",
                        "load_failed", "other_value"}
        /\ outcome \in {"success", "fallback"} => Len(ret) = 2
        /\ outcome \in {"empty_input", "load_failed", "other_value"} => ret = <<>>
        /\ outcome = "best_effort" => mode = "int" /\ ret = last_json.summaries

\* a Success whose two claims are what is left of a longer generated list
C2_Witness ==
    /\ Returned
    /\ outcome = "success"
    /\ mode = "int"
    /\ Len(ret) = 2
    /\ Len(result_dict.summaries) = 3

\* C8: the sanitizer returns the empty result exactly when no evidence id
\* cited in the raw result is in the available-id set, and in the integer-id
\* loop such an attempt fails: it does not return, and the loop goes on to
\* the next attempt unless this was attempt 3 of 3.
C8_EmptyIsAttemptFailure ==
    (mode = "int" /\ result_dict # NoJson) =>
        /\ (sanitized = EmptyDict)
              = (Cited(result_dict.summaries) \cap AvailableSet(available_doc_ids) = {})
        /\ sanitized = EmptyDict =>
              /\ outcome # "success"
              /\ invocations < 3 => pc = "loop" /\ attempt = invocations
              /\ invocations = 3 => /\ pc \in {"returned", "raised"}
                                    /\ outcome \in {"best_effort", "fallback", "raised"}

\* an attempt citing only documents that are not in the corpus, after which
\* the loop is at its next attempt
C8_Witness ==
    /\ mode = "int"
    /\ result_dict # NoJson
    /\ Cited(result_dict.summaries) # {}
    /\ sanitized = EmptyDict
    /\ pc = "loop"
    /\ attempt = 1

\* C9: the generator is invoked at most 3 times per query in integer-id mode
\* and at most 10 times in mixed-id mode.
C9_BudgetRespected ==
    /\ mode = "int" => invocations <= 3
    /\ mode = "mixed" => invocations <= 10

\* the full budget is spent
C9_Witness == mode = "mixed" /\ invocations = 10 /\ Returned /\ outcome = "fallback"

\* C10: in mixed-id mode, as long as every attempt so far returned unparsable
\* text, the loop goes on up to the 5th attempt and no further: after exactly
\* 5 invocations it has returned the Fallback.
C10_ParseErrorShortCircuit ==
    (mode = "mixed" /\ invocations >= 1 /\ json_errors = invocations) =>
        /\ invocations <= 5
        /\ invocations < 5 => pc = "loop"
        /\ invocations = 5 =>
              /\ Returned
              /\ outcome = "fallback"
              /\ hit_json_threshold
              /\ Len(ret) = 2
              /\ \A i \in 1..2 :
                    ret[i].perspectives[1].text
                        = "JSON parse errors 5+ times (prompt too long)"

\* five unparsable answers in a row
C10_Witness ==
    /\ mode = "mixed"
    /\ json_errors = 5
    /\ invocations = 5
    /\ Returned

(* --------------------- claims about the fallback ----------------------- *)

IsFallback == Returned /\ outcome = "fallback"

\* C11: in integer-id mode, when the generator raises on every attempt,
\* summarize_query goes on to the 3rd invocation and no further, and then
\* returns a Fallback of 2 claims, each citing the ids of the first min(3, n)
\* documents of the corpus.
C11_RaisesThriceThenFallback ==
    (mode = "int" /\ only_raised /\ invocations >= 1) =>
        /\ invocations <= 3
        /\ invocations < 3 => pc = "loop"
        /\ invocations = 3 =>
              /\ IsFallback
              /\ Len(ret) = 2
              /\ \A i \in 1..2 :
                    LET ev == ret[i].perspectives[1].evidence_docs
                    IN /\ Len(ev) = Min(3, Len(merged_corpus))
                       /\ \A k \in 1..Len(ev) : ev[k] = merged_corpus[k].id

\* three raising invocations over a corpus of more than 3 documents
C11_Witness ==
    /\ mode = "int"
    /\ only_raised
    /\ invocations = 3
    /\ IsFallback
    /\ Len(merged_corpus) > 3
    /\ ret[1].perspectives[1].evidence_docs = <<1, 2, 3>>

\* C12 (as claimed): a call that could not load its model has counted that as
\* a failed attempt and ended, the budget spent, in a Fallback Summary: it
\* has not been aborted with another result.
C12_LoadFailureIsAttemptFailure ==
    (Returned /\ outcome = "load_failed") => Len(ret) = 2

\* C12 (amended): a model that cannot be loaded ends the call at once with
\* the empty list, before any attempt and any invocation of the generator;
\* an error raised by the generator call inside the loop is attempt-local:
\* the loop goes on to the next attempt, and ends in a Fallback when every
\* attempt of the budget (3, or 10 in mixed-id mode) raised.
C12_LoadFailureReturnsEmpty ==
    /\ outcome = "load_failed" =>
          Returned /\ ret = <<>> /\ invocations = 0 /\ attempt = 0
    /\ (only_raised /\ invocations >= 1) =>
          LET budget == IF mode = "int" THEN 3 ELSE 10
          IN /\ invocations < budget => pc = "loop"
             /\ invocations = budget => IsFallback /\ Len(ret) = 2

\* the model fails to load for a corpus and claims that pass the guard
C12_Witness ==
    /\ Returned
    /\ outcome = "load_failed"
    /\ merged_corpus # <<>>
    /\ mode = "int" => Len(claims) = 2

\* the id of document k of the corpus, in mixed-id mode '' when it has none
IdOrEmpty(doc) == IF doc.has_id THEN doc.id ELSE StrId(<<>>)

\* C13 (as claimed): every Fallback has exactly 2 claims of exactly 1
\* perspective each, whose evidence list has length min(3, n) and holds the
\* ids of the first documents of the corpus, in corpus order, unchanged in
\* value and type.
C13_FallbackShapeAsClaimed ==
    IsFallback =>
        /\ Len(ret) = 2
        /\ \A i \in 1..Len(ret) :
              /\ Len(ret[i].perspectives) = 1
              /\ LET ev == ret[i].perspectives[1].evidence_docs
                 IN /\ Len(ev) = Min(3, Len(merged_corpus))
                    /\ \A k \in 1..Len(ev) :
                          merged_corpus[k].has_id => ev[k] = merged_corpus[k].id

\* C13 (amended): every Fallback has exactly 2 claims of exactly 1 perspective
\* each, whose evidence list has length min(3, n) and follows the first
\* documents of the corpus in corpus order: in integer-id mode it holds their
\* ids unchanged; in mixed-id mode it holds their ids as _normalize_evidence_ids
\* leaves them: an int unchanged, a string stripped, without its "doc "
\* prefix, and cast to int when it is all digits ("7" becomes 7), and '' for
\* a document without an id.
C13_FallbackShape ==
    IsFallback =>
        /\ Len(ret) = 2
        /\ \A i \in 1..Len(ret) :
              /\ Len(ret[i].perspectives) = 1
              /\ LET ev == ret[i].perspectives[1].evidence_docs
                 IN /\ Len(ev) = Min(3, Len(merged_corpus))
                    /\ \A k \in 1..Len(ev) :
                          IF mode = "int" THEN ev[k] = merged_corpus[k].id
                          ELSE LET id == IdOrEmpty(merged_corpus[k])
                               IN /\ ev[k] = NormalizeId(id)
                                  /\ id.kind = "int" => ev[k] = id
                                  /\ id = StrId(S_7) => ev[k] = IntId(7)
                                  /\ id = StrId(S_url) => ev[k] = id
                                  /\ ~merged_corpus[k].has_id => ev[k] = StrId(<<>>)

\* a mixed-id Fallback over a corpus whose second id is the string "7", and
\* so cites the int 7
C13_Witness ==
    /\ IsFallback
    /\ mode = "mixed"
    /\ Len(merged_corpus) > 3
    /\ merged_corpus[2].id = StrId(S_7)
    /\ ret[2].perspectives[1].evidence_docs = <<IntId(1), IntId(7), StrId(S_url)>>

\* C14: the two claim texts of a Fallback are the first and the second claim
\* text the caller supplied (integer-id mode, where a Fallback is only reached
\* with 2 claims supplied), and the placeholders 'Positive claim' and
\* 'Negative claim' where the caller supplies none (mixed-id mode).
C14_FallbackClaimTexts ==
    IsFallback =>
        /\ Len(ret) = 2
        /\ mode = "int" =>
              /\ Len(claims) >= 2
              /\ ret[1].claim = claims[1]
              /\ ret[2].claim = claims[2]
        /\ mode = "mixed" =>
              /\ claims = <<>>
              /\ ret[1].claim = "Positive claim"
              /\ ret[2].claim = "Negative claim"

\* an integer-id Fallback for a caller who supplied two different claims
C14_Witness ==
    /\ IsFallback
    /\ mode = "int"
    /\ claims = <<"pos", "neg">>
    /\ ret[1].claim = "pos"
    /\ ret[2].claim = "neg"

\* C15: in every integer-id Fallback each perspective text is the prefix
\* 'Error generating summary: ' followed by the first min(100, length)
\* characters of the exception text of the final failed attempt, so by at
\* most 100 characters.
C15_ErrorTextTruncated ==
    (IsFallback /\ mode = "int") =>
        \A i \in 1..Len(ret) :
            LET text == ret[i].perspectives[1].text
            IN /\ text.prefix = "Error generating summary: "
               /\ text.rest.kind = last_error.kind
               /\ text.rest.len = Min(last_error.len, 100)
               /\ text.rest.len <= 100

\* the final attempt failed with an exception text of more than 100 characters
C15_Witness ==
    /\ IsFallback
    /\ mode = "int"
    /\ last_error.len > 100
    /\ ret[1].perspectives[1].text.rest.len = 100

(* ------------------ claims about what is returned ---------------------- *)

IsSuccess == Returned /\ outcome = "success"
\* the ids of the documents of the corpus
CorpusIds == {merged_corpus[k].id : k \in {j \in 1..Len(merged_corpus) : merged_corpus[j].has_id}}
\* the call is over and every attempt of the budget failed
IntAllFailed ==
    /\ mode = "int"
    /\ invocations = 3
    /\ pc \in {"returned", "raised"}
    /\ outcome \notin {"success", "other_value"}

\* C16 (as claimed): in every Success result, in both modes, a document id
\* appears in the evidence list of at most one perspective across both claims.
C16_SuccessGloballyUnique ==
    IsSuccess =>
        LET ps == Persps(ret)
        IN \A i \in 1..Len(ps), j \in 1..Len(ps) :
              i # j => Range(ps[i].evidence_docs) \cap Range(ps[j].evidence_docs) = {}

\* C17 (as claimed): in every Success result, in both modes, every id of every
\* evidence list is the id of a document of the corpus passed to the call.
C17_SuccessCitesCorpus == IsSuccess => Cited(ret) \subseteq CorpusIds

C19_BestEffortAsClaimed ==
    (IntAllFailed /\ (result_dict # NoJson \/ last_json # NoJson))
        => Returned /\ outcome = "best_effort"

\* C19 (amended): in integer-id mode, when all 3 attempts failed, the
\* structure retained by the latest attempt that reached the sanitizer (its
\* sanitized result if that is not empty, else the raw parsed object) decides:
\* if it has a list under "summaries", that list is returned as best-effort;
\* if nothing is retained, or the retained object is empty or has no
\* "summaries", the Fallback is returned; if its "summaries" is null the
\* handler raises (the error of C1).
C19_BestEffort ==
    /\ (mode = "int" /\ result_dict # NoJson)
          => last_json = (IF Truthy(sanitized) THEN sanitized ELSE result_dict)
    /\ IntAllFailed =>
          /\ last_json.summaries_key = "list"
                => Returned /\ outcome = "best_effort" /\ ret = last_json.summaries
          /\ last_json.summaries_key \in {"none", "absent"} => IsFallback
          /\ last_json.summaries_key = "null" => pc = "raised"

\* the structure an earlier attempt retained is returned after a last attempt
\* that parsed nothing
C19_Witness ==
    /\ IntAllFailed
    /\ result_dict = NoJson
    /\ outcome = "best_effort"
    /\ Len(ret) = 3

\* the call is over, the mixed-id budget spent without the short-circuit, and
\* its last attempt parsed an object that violates the schema
MixedExhaustedWithParsed ==
    /\ mode = "mixed"
    /\ Returned
    /\ invocations = 10
    /\ ~hit_json_threshold
    /\ result_dict.summaries_key = "list"
    /\ ~MixedSchemaOK(result_dict)

\* C20 (as claimed): in mixed-id mode, when the budget is exhausted without
\* the parse-error short-circuit and an attempt produced a parsed but
\* schema-violating structure, that structure is returned as best-effort in
\* preference to the Fallback.
C20_MixedBestEffortAsClaimed ==
    MixedExhaustedWithParsed =>
        outcome = "best_effort" /\ ret = result_dict.summaries

\* C20 (amended): mixed-id mode retains no best-effort structure: when the
\* budget is exhausted without the parse-error short-circuit, the Fallback
\* with the text "All 10 generation attempts failed" is returned, also when
\* an attempt produced a parsed but schema-violating structure.
C20_MixedAlwaysFallback ==
    /\ mode = "mixed" => outcome # "best_effort"
    /\ (mode = "mixed" /\ Returned /\ invocations = 10 /\ ~hit_json_threshold
            /\ outcome \notin {"success", "other_value"})
          => /\ IsFallback
             /\ Len(ret) = 2
             /\ \A i \in 1..2 :
                   ret[i].perspectives[1].text = "All 10 generation attempts failed"

\* the 10th attempt parsed three claims
C20_Witness ==
    /\ MixedExhaustedWithParsed
    /\ Len(result_dict.summaries) = 3
    /\ IsFallback

(* --------------- claims about the two failure counters ----------------- *)

\* the perspective texts of the value returned
RetTexts == {Persps(ret)[i].text : i \in 1..Len(Persps(ret))}

\* C21: in mixed-id mode the parse-error counter is separate from the attempt
\* counter: it is 0 before the first attempt, a step increases it by exactly 1
\* when it is an attempt whose raw output does not parse and leaves it as it is
\* otherwise (generator raising, schema violation, success), so it is never
\* reset; the loop goes on only while the counter is below 5 and is left
\* before the 10th attempt only with the counter at 5, consecutive failures or
\* not; a call that ends in the Fallback with fewer than 5 parse failures has
\* made all 10 attempts.
C21_ParseErrorCounter ==
    /\ [](mode = "mixed" =>
            /\ invocations = 0 => json_errors = 0
            /\ json_errors <= invocations
            /\ pc = "loop" => json_errors < json_error_threshold
            /\ hit_json_threshold <=> json_errors = json_error_threshold
            /\ (IsFallback /\ invocations < MixedMaxRetries) =>
                   json_errors = json_error_threshold
            /\ (IsFallback /\ json_errors < json_error_threshold) =>
                   invocations = MixedMaxRetries)
    /\ [][(mode = "mixed") =>
             (json_errors' = IF MixedGenUnparsable THEN json_errors + 1
                             ELSE json_errors)]_vars

\* C21's case: the 5th parse failure comes at the 8th attempt, after three
\* attempts that failed for other reasons, and ends the loop
C21_Witness ==
    /\ mode = "mixed"
    /\ IsFallback
    /\ json_errors = json_error_threshold
    /\ invocations = 8
    /\ hit_json_threshold

C23_IntNoParseShortCircuit ==
    (mode = "int" /\ only_unparsable /\ invocations >= 1) =>
        /\ invocations <= IntMaxRetries
        /\ json_errors = 0 /\ ~hit_json_threshold
        /\ last_json = NoJson
        /\ invocations < IntMaxRetries => (pc = "loop" /\ attempt = invocations)
        /\ invocations = IntMaxRetries =>
               /\ IsFallback
               /\ last_error.kind = "json"
               /\ ret = IntFallback(merged_corpus, claims, last_error)

\* C23's case: three unparsable answers, then the Fallback
C23_Witness ==
    /\ mode = "int"
    /\ only_unparsable
    /\ invocations = IntMaxRetries
    /\ IsFallback

(* ---------------- claims about _normalize_evidence_ids ----------------- *)

NormDone == pc = "norm_done"

\* the output has the claims, perspectives and texts of the input, in their
\* order, and as many evidence ids in every perspective
SameShapeAndTexts(in, out) ==
    /\ Len(out) = Len(in)
    /\ \A c \in 1..Len(in) :
          /\ out[c].claim = in[c].claim
          /\ Len(out[c].perspectives) = Len(in[c].perspectives)
          /\ \A q \in 1..Len(in[c].perspectives) :
                /\ out[c].perspectives[q].text = in[c].perspectives[q].text
                /\ Len(out[c].perspectives[q].evidence_docs)
                       = Len(in[c].perspectives[q].evidence_docs)

\* every evidence id of the output is rule(the id in its place in the input)
EveryIdIs(rule(_), in, out) ==
    \A c \in 1..Len(in) : \A q \in 1..Len(in[c].perspectives) :
        \A k \in 1..Len(in[c].perspectives[q].evidence_docs) :
            out[c].perspectives[q].evidence_docs[k]
                = rule(in[c].perspectives[q].evidence_docs[k])

\* the trimmed string has the label "doc " in any case in front
HasDocLabel(t) == Len(t) >= 4 /\ Lower(SubSeq(t, 1, 4)) = <<"d", "o", "c", " ">>
\* the trimmed string without that label, trimmed again
Remainder(t) == IF HasDocLabel(t) THEN Strip(SubSeq(t, 5, Len(t))) ELSE t

\* the rule as claimed: a non-digit remainder leaves the trimmed string
RuleAsClaimed(eid) ==
    IF eid.kind # "str" THEN eid
    ELSE IF IsDigit(Remainder(Strip(eid.s)))
         THEN IntId(ToInt(Remainder(Strip(eid.s))))
         ELSE StrId(Strip(eid.s))

\* the rule of the code: a non-digit remainder is kept, without the label
RuleOfTheCode(eid) ==
    IF eid.kind # "str" THEN eid
    ELSE IF IsDigit(Remainder(Strip(eid.s)))
         THEN IntId(ToInt(Remainder(Strip(eid.s))))
         ELSE StrId(Remainder(Strip(eid.s)))

C25_LoadedAtMostOnce == \A m \in ModelNames : loads[m] <= 1

(* --------------------- claims about is_error_summary ------------------- *)

\* C26: a caller can tell a Fallback from a genuine summary by the marker
\* text: every Fallback of integer-id mode is classified as an error by
\* is_error_summary(summary, is_merged=False), every Fallback of mixed-id mode
\* (generic or parse-error) by is_error_summary(summary, is_merged=True), and
\* no Success is classified as an error (none of the texts the model's
\* generator writes carries a marker).
C26_MarkerTellsFallback ==
    /\ (IsFallback /\ mode = "int") =>
           is_error_summary(WithChars(ret, TRUE), FALSE)
    /\ (IsFallback /\ mode = "mixed") =>
           is_error_summary(WithChars(ret, FALSE), TRUE)
    /\ IsSuccess => ~is_error_summary(WithChars(ret, FALSE), mode = "mixed")

\* C26's case: a mixed-id Fallback with the generic message, after 10 failed
\* attempts, is classified as an error
C26_Witness ==
    /\ mode = "mixed"
    /\ IsFallback
    /\ ~hit_json_threshold
    /\ is_error_summary(WithChars(ret, FALSE), TRUE)

(* ------------------ claims about the integer-id schema ----------------- *)

SchemaDone == pc = "schema_done"
\* the perspectives of the candidate
CandPersps == Persps(result_dict.summaries)

\* exactly 2 claims, no blank claim or perspective text, no perspective
\* without evidence
TwoClaimsTextsEvidence ==
    /\ Len(result_dict.summaries) = 2
    /\ \A c \in 1..Len(result_dict.summaries) : ~IsBlank(result_dict.summaries[c].claim)
    /\ \A i \in 1..Len(CandPersps) :
          ~IsBlank(CandPersps[i].text) /\ Len(CandPersps[i].evidence_docs) >= 1

\* no document id is in the evidence lists of two perspectives
NoIdInTwoPerspectives ==
    \A i \in 1..Len(CandPersps), j \in 1..Len(CandPersps) :
        i # j => \A d \in Range(CandPersps[i].evidence_docs) :
                     d \notin Range(CandPersps[j].evidence_docs)

\* no document id is twice in the evidence list of one perspective
NoIdTwiceInOneList ==
    \A i \in 1..Len(CandPersps) :
        Cardinality(Range(CandPersps[i].evidence_docs)) = Len(CandPersps[i].evidence_docs)

\* every evidence id is an integer (not None)
AllIdsIntegers ==
    \A i \in 1..Len(CandPersps) : \A d \in Range(CandPersps[i].evidence_docs) : d \in DocIds

C29_EveryCallReturns == <>Returned

(* ------------- claims about the sanitizer and the schema --------------- *)

\* C30 (as claimed): sanitization enforces what the schema demands: in
\* integer-id mode, when the sanitized result of an attempt is non-empty and
\* has exactly 2 claims whose claim texts and perspective texts are non-blank,
\* it passes MultiPerspectiveSummary validation and the attempt ends in
\* Success with it.
C30_SanitizedShapeValidates ==
    (/\ mode = "int"
     /\ sanitized.summaries_key = "list"
     /\ Len(sanitized.summaries) = 2
     /\ \A c \in 1..Len(sanitized.summaries) : ~IsBlank(sanitized.summaries[c].claim)
     /\ \A i \in 1..Len(OutPersps) : ~IsBlank(OutPersps[i].text))
        => /\ IntSchemaOK(sanitized.summaries)
           /\ IsSuccess
           /\ ret = sanitized.summaries

(* ------------- claims about what the sanitizer keeps ------------------- *)

\* the ids cited in the raw result that are in the available set
Usable == Cited(result_dict.summaries) \cap AvailableSet(available_doc_ids)
\* the raw perspective, in traversal order, that cites d first
FirstCiter(d) ==
    CHOOSE i \in 1..Len(RawPersps) :
        /\ d \in Range(RawPersps[i].evidence_docs)
        /\ \A j \in 1..(i - 1) : d \notin Range(RawPersps[j].evidence_docs)
\* the usable ids raw perspective i is the first to cite
FirstCitedBy(i) == {d \in Usable : FirstCiter(d) = i}
\* the place in the output of raw perspective i, if it is kept
PlaceOf(i) == Cardinality({j \in 1..i : FirstCitedBy(j) # {}})
\* the raw perspectives of claim c, as places in traversal order
PerspsOfClaim(c) ==
    LET before == Len(Persps(SubSeq(result_dict.summaries, 1, c - 1)))
    IN (before + 1)..(before + Len(result_dict.summaries[c].perspectives))

\* C31: the sanitizer loses no usable citation: every id that is in the
\* available set and cited somewhere in the raw result is in the output, in
\* the perspective that cites it first in traversal order (with that
\* perspective's text); a perspective is dropped only if every id of it is
\* unavailable or first cited by an earlier perspective, and a claim only if
\* all its perspectives are dropped.
C31_NoUsableCitationLost ==
    SanDone =>
        /\ Cited(sanitized.summaries) = Usable
        /\ Len(OutPersps) = PlaceOf(Len(RawPersps))
        /\ \A i \in 1..Len(RawPersps) :
              FirstCitedBy(i) # {} =>
                  /\ Range(OutPersps[PlaceOf(i)].evidence_docs) = FirstCitedBy(i)
                  /\ OutPersps[PlaceOf(i)].text = RawPersps[i].text
        /\ Len(sanitized.summaries) =
              Cardinality({c \in 1..Len(result_dict.summaries) :
                              \E i \in PerspsOfClaim(c) : FirstCitedBy(i) # {}})

\* C31's case: the first perspective is dropped (it cites nothing available),
\* the second, under the same claim, is kept with the id it is the first to cite
C31_Witness ==
    /\ SanDone
    /\ Len(result_dict.summaries) = 1
    /\ Len(RawPersps) = 2
    /\ FirstCitedBy(1) = {}
    /\ RawPersps[1].evidence_docs # <<>>
    /\ FirstCitedBy(2) # {}
    /\ Len(OutPersps) = 1

(* ---------------- claims about the caches in sequential use ------------ *)

\* the name caller c is asking for
NameOf(c) == callers[c].model_name
\* first half of C32: once the wrapper of a name is cached, no step loads the
\* tokenizer or the weights of that name or wraps it again
NoReloadOnceReturned ==
    \A c \in DOMAIN callers :
        NameOf(c) \in outlines_model_cache =>
            /\ ~LoadTokenizer(c) /\ ~LoadWeights(c) /\ ~Wrap(c)
            /\ loads' = loads
\* a call that finds no wrapper cached goes on to _load_model
RetriesWhenNotCached ==
    \A c \in DOMAIN callers :
        (GetCheck(c) /\ NameOf(c) \notin outlines_model_cache) =>
            callers'[c].pc = "load_model"

\* C32 (as claimed): in sequential use, once _get_outlines_model has returned
\* for a name, no later call loads the model, tokenizer or wrapper of that name
\* again; and a load that fails leaves no entry for that name in the model
\* cache, so that the next call attempts the load again.
C32_CachedForLifeAsClaimed ==
    [][/\ NoReloadOnceReturned
       /\ RetriesWhenNotCached
       /\ \A c \in DOMAIN callers :
             (LoadRaises(c)) => (NameOf(c) \notin model_cache')]_vars

\* C32 (amended): in sequential use, once _get_outlines_model has returned for
\* a name, no later call loads the model, tokenizer or wrapper of that name
\* again; a call that fails leaves no wrapper cached for that name, so the
\* next call goes on to _load_model again; the weights are cached by the
\* failed call exactly when it failed in wrapping them, and a failure at or
\* before loading the weights leaves no entry in the model cache.
C32_CachedForLife ==
    [][/\ NoReloadOnceReturned
       /\ RetriesWhenNotCached
       /\ \A c \in DOMAIN callers :
             (LoadRaises(c)) =>
                 (/\ NameOf(c) \notin outlines_model_cache'
                  /\ NameOf(c) \in model_cache' <=> At(c, "wrap")
                  /\ ~At(c, "wrap") => loads'[NameOf(c)] = 0)]_vars

\* C32's case: the first call for the name failed, the second loaded and
\* returned, and the third has returned from the cache: one load in all
C32_Witness ==
    /\ mode = "seq"
    /\ callers[1].history = << <<model_name, "raised">>, <<model_name, "returned">> >>
    /\ NameOf(1) = model_name
    /\ At(1, "returned")
    /\ loads[model_name] = 1

(* ------------- claims about the retained structure (last_json) --------- *)

\* an integer-id attempt gets its parsed object through the sanitizer in this
\* step (the steps of IntGenString and IntGenObject, which alone record a
\* result_dict)
AttemptSanitized ==
    /\ mode = "int"
    /\ pc = "loop"
    /\ invocations' = invocations + 1
    /\ result_dict' # NoJson
\* what an attempt that got its parsed object through the sanitizer retains
RetainedByThisAttempt == IF Truthy(sanitized') THEN sanitized' ELSE result_dict'
\* a best-effort return hands out the retained structure's list
BestEffortIsRetained ==
    (mode = "int" /\ pc' = "returned" /\ outcome' = "best_effort") =>
        ret' = last_json'.summaries

\* C33 (as claimed): in integer-id mode the best-effort structure returned on
\* exhaustion is the one retained by the most recent attempt that parsed:
\* every attempt that parses (every attempt that fails neither by the
\* generator raising nor by unparsable text) overwrites the retained
\* structure with its own, and the attempts that fail before parsing leave it
\* unchanged.
C33_LatestParsedRetainedAsClaimed ==
    [][/\ (AttemptSanitized \/ IntGenMalformed) =>
              (result_dict' # NoJson /\ last_json' = RetainedByThisAttempt)
       /\ (IntGenRaises \/ IntGenUnparsable) => (last_json' = last_json)
       /\ BestEffortIsRetained]_vars

\* C33 (amended): the best-effort structure returned on exhaustion is the one
\* retained by the most recent attempt that got a parsed object through the
\* sanitizer: each such attempt overwrites what earlier attempts retained,
\* and the attempts that fail before that point (generator raises,
\* unparsable text, or a parsed value the sanitizer raises on) leave it
\* unchanged.
C33_LatestParsedRetained ==
    [][/\ (AttemptSanitized) =>
              (result_dict' # NoJson /\ last_json' = RetainedByThisAttempt)
       /\ (IntGenRaises \/ IntGenUnparsable \/ IntGenMalformed) =>
              (last_json' = last_json)
       /\ BestEffortIsRetained]_vars

\* C33's case: the third attempt parsed a value the sanitizer raised on, and
\* the structure an earlier attempt retained is returned
C33_Witness ==
    /\ IntAllFailed
    /\ outcome = "best_effort"
    /\ last_error.kind = "malformed"
    /\ result_dict = NoJson
    /\ ret = last_json.summaries
    /\ ret # <<>>

(* ------------- claims about what a best-effort result holds ------------ *)

\* summarize_query has returned the retained structure
IntBestEffort == Returned /\ mode = "int" /\ outcome = "best_effort"
\* every evidence id of the claims is a corpus id, and none is in two
\* perspectives
CitesCorpusOncePerPerspective(sm) ==
    /\ Cited(sm) \subseteq CorpusIds
    /\ LET ps == Persps(sm)
       IN \A i \in 1..Len(ps), j \in 1..Len(ps) :
             i # j => Range(ps[i].evidence_docs) \cap Range(ps[j].evidence_docs) = {}
\* the claims break one of: exactly 2 claims, no blank text, no id twice in
\* one evidence list
BreaksCountTextOrRepeat(sm) ==
    \/ Len(sm) # 2
    \/ \E c \in 1..Len(sm) : IsBlank(sm[c].claim)
    \/ LET ps == Persps(sm)
       IN \E i \in 1..Len(ps) :
             \/ IsBlank(ps[i].text)
             \/ Cardinality(Range(ps[i].evidence_docs)) # Len(ps[i].evidence_docs)

\* C34: in integer-id mode an attempt whose sanitization is non-empty retains
\* the sanitized structure, not the raw one; every evidence id in it is a
\* corpus id and no id is in more than one perspective; and when such a
\* structure (one citing a corpus id) is returned as best-effort, it fails
\* the schema, and only on the claim count, a blank text or an id repeated
\* inside one perspective.
C34_SanitizedBestEffort ==
    /\ [][(AttemptSanitized /\ Truthy(sanitized')) =>
              (/\ last_json' = sanitized'
               /\ CitesCorpusOncePerPerspective(last_json'.summaries))]_vars
    /\ []((IntBestEffort /\ Cited(ret) \cap CorpusIds # {}) =>
              (/\ CitesCorpusOncePerPerspective(ret)
               /\ ~IntSchemaOK(ret)
               /\ BreaksCountTextOrRepeat(ret)))

\* C34's case: the last attempt parsed two claims, the sanitizer removed one
\* of them, and the claim that is left is returned as best-effort
C34_Witness ==
    /\ IntBestEffort
    /\ Len(result_dict.summaries) = 2
    /\ Truthy(sanitized)
    /\ ret = sanitized.summaries
    /\ Len(ret) = 1

\* C35: in integer-id mode an attempt whose sanitization is empty retains the
\* raw parsed structure, and none of the evidence ids that structure cites is
\* the id of a document of the corpus; so a best-effort result that is not a
\* sanitized structure cites no corpus id at all.
C35_RawBestEffort ==
    /\ [][(AttemptSanitized /\ ~Truthy(sanitized')) =>
              (/\ last_json' = result_dict'
               /\ Cited(last_json'.summaries) \cap CorpusIds = {})]_vars
    /\ []((IntBestEffort /\ result_dict # NoJson /\ ~Truthy(sanitized)) =>
              (/\ ret = result_dict.summaries
               /\ Cited(ret) \cap CorpusIds = {}))

\* C35's case: the last attempt parsed claims citing documents that are not in
\* the corpus, nothing survived the sanitizer, and the raw claims are returned
C35_Witness ==
    /\ IntBestEffort
    /\ result_dict # NoJson
    /\ sanitized = EmptyDict
    /\ ret = result_dict.summaries
    /\ Cited(ret) # {}

(* ------------- claims about the returns of the empty list -------------- *)

\* nothing of the model is in the caches and nothing was loaded
NothingLoaded ==
    /\ model_cache = {}
    /\ tokenizer_cache = {}
    /\ outlines_model_cache = {}
    /\ \A m \in ModelNames : loads[m] = 0

\* C36: when the corpus is empty (either mode), or fewer than 2 claims are
\* supplied in integer-id mode, summarize_query returns the empty list, the
\* generator has not been invoked and the model has not been loaded.
C36_GuardReturnsEmpty ==
    (mode \in {"int", "mixed"} /\ pc # "entry"
         /\ (merged_corpus = <<>> \/ (mode = "int" /\ Len(claims) < 2))) =>
        /\ Returned
        /\ ret = <<>>
        /\ invocations = 0
        /\ NothingLoaded

\* C36's case: a corpus with documents and a single claim, in integer-id mode
C36_Witness ==
    /\ Returned
    /\ mode = "int"
    /\ merged_corpus # <<>>
    /\ Len(claims) = 1
    /\ ret = <<>>
    /\ NothingLoaded

\* C37: when the generator returns a value that is neither a string nor an
\* object with summaries, summarize_query (both modes) returns the empty list
\* on that attempt: no further attempt is made, and neither the retained
\* structure nor a Fallback is returned.
C37_OtherValueReturnsEmpty ==
    /\ [][(GenOther) =>
              (/\ pc' = "returned"
               /\ ret' = <<>>
               /\ outcome' \notin {"best_effort", "fallback"}
               /\ invocations' = invocations + 1)]_vars
    /\ [][(pc = "returned") => (invocations' = invocations)]_vars
    /\ [](outcome = "other_value" => (Returned /\ ret = <<>> /\ invocations = attempt + 1))

\* C37's case: after an attempt that retained a structure, the second attempt
\* of three yields such a value, and the empty list is returned
C37_Witness ==
    /\ Returned
    /\ outcome = "other_value"
    /\ mode = "int"
    /\ invocations = 2
    /\ last_json.summaries_key = "list"
    /\ last_json.summaries # <<>>
    /\ ret = <<>>

(* ------------- claims about normalizing twice -------------------------- *)

\* C38 (as claimed): evidence-id normalization is idempotent: for every
\* summary list s, normalizing the normalized list gives the normalized list
\* again, _normalize_evidence_ids(_normalize_evidence_ids(s)) =
\* _normalize_evidence_ids(s).
C38_NormalizationIdempotent ==
    NormDone => normalize_evidence_ids(ret) = ret

====
